---- MODULE Spec2Model ----
(***************************************************************************)
(* Model of the Google Pay activity parser (FlexibleGooglePayParser), of   *)
(* the command-line entry point of parse_html_to_json and of the job       *)
(* store of app.py.                                                        *)
(*                                                                         *)
(*   Spec       parse_html_file of parse_html_to_json, called directly or  *)
(*              through main()                                             *)
(*   BatchSpec  parse_multiple_files of flexible_parser                    *)
(*   StampSpec  _normalize_timestamp and the extract_timestamp of both     *)
(*              files, applied to one timestamp                            *)
(*   FieldSpec  the extractors of one fragment, applied to one fragment    *)
(*   JobSpec    the job store, the request handlers and the background    *)
(*              threads of app.py                                          *)
(*                                                                         *)
(* Text is a sequence of tokens.  Characters that the regular expressions  *)
(* of the parser look at one by one (digits, ",", ".", "X", whitespace)    *)
(* are single tokens; a markup tag or a word that the expressions can only *)
(* match as a whole is one token:                                          *)
(*   DIV     <div class="outer-cell ...>        (container marker)         *)
(*   TITLE   <p class="mdl-typography--title">Google Pay<br /></p>         *)
(*   PTITLE  <p class="mdl-typography--title">  followed by another name   *)
(*   BR      <br/>            LT   any other tag, such as </div>           *)
(*   GMT     a zone offset such as GMT+05:30                               *)
(*   Rupee Euro Dollar Pound   the currency symbols                        *)
(*   SP NL   a blank, a line feed                                          *)
(*   BCLOSE  </b>             EMSP  &emsp;         BOPEN  <b>              *)
(* Every other token is a word, written as itself ("Paid", "Starbucks").   *)
(* A word or a zone offset is never written directly against a run of      *)
(* [A-Z0-9] characters, so that no character class of a pattern matches a  *)
(* part of a token; the zone offset of a timestamp is followed by a tag or *)
(* by the end of the text.                                                 *)
(* Optional values are sequences of length at most one: None is <<>> and   *)
(* a present value v is <<v>>.  A string value is the sequence of its      *)
(* tokens.  A record holds the fields amount, currency, recipient,         *)
(* payment_method, account_number, transaction_id, status, timestamp,      *)
(* product and wallet.                                                     *)
(***************************************************************************)
EXTENDS Integers, Sequences, FiniteSets, TLC

\* ---------------------------------------------------------------- bounds
MaxPieces == 3
\* the most files of a batch
MaxFiles == 3
\* the largest hour written in a timestamp
MaxHour == 13
\* the most parts of a fragment the extractors are applied to
MaxParts == 2
\* the most background threads that are started
MaxThreads == 2
\* the most operations on the MongoDB collection that raise
MaxFailures == 1

\* ---------------------------------------------------------------- tokens
None == <<>>
Some(v) == <<v>>

Verbs == {"Paid", "Sent", "Received", "Credited"}
CurrencySymbols == {"Rupee", "Euro", "Dollar", "Pound"}
Digits == {"0", "1", "2", "3", "4", "5", "6", "7", "8", "9"}
Whitespace == {"SP", "NL"}

DigitVal(d) ==
    CASE d = "0" -> 0 [] d = "1" -> 1 [] d = "2" -> 2 [] d = "3" -> 3
      [] d = "4" -> 4 [] d = "5" -> 5 [] d = "6" -> 6 [] d = "7" -> 7
      [] d = "8" -> 8 [] d = "9" -> 9

Tok(text, i) == IF i >= 1 /\ i <= Len(text) THEN text[i] ELSE "EOF"

\* the first index >= i of text whose token is not in S (Len+1 when none)
RECURSIVE SkipRun(_, _, _)
SkipRun(text, i, S) ==
    IF i <= Len(text) /\ text[i] \in S THEN SkipRun(text, i + 1, S) ELSE i

\* the first index >= i of text whose token is in S (Len+1 when none)
RECURSIVE FindTok(_, _, _)
FindTok(text, i, S) ==
    IF i > Len(text) \/ text[i] \in S THEN i ELSE FindTok(text, i + 1, S)

Range(text) == {text[i] : i \in 1..Len(text)}

Contains(text, S) == \E i \in 1..Len(text) : text[i] \in S

\* ---------------------------------------------------------------- amount
\* float(): the value of a digit string with an optional point, as
\* <<mantissa, scale>> (mantissa / 10^scale) without trailing zeros
RECURSIVE DigitsValue(_, _)
DigitsValue(ds, acc) ==
    IF ds = <<>> THEN acc ELSE DigitsValue(Tail(ds), 10 * acc + DigitVal(Head(ds)))

RECURSIVE Normalize(_, _)
Normalize(m, s) ==
    IF s > 0 /\ m % 10 = 0 THEN Normalize(m \div 10, s - 1) ELSE <<m, s>>

\* float(s): None models ValueError
float(s) ==
    LET p == FindTok(s, 1, {"."})
        ip == SubSeq(s, 1, p - 1)
        fp == SubSeq(s, p + 1, Len(s))
    IN  IF Len(ip) + Len(fp) = 0 THEN None
        ELSE Some(Normalize(DigitsValue(ip \o fp, 0), Len(fp)))

\* str.replace(',', '')
StripCommas(s) == SelectSeq(s, LAMBDA t : t # ",")

\* does patterns['amount'] = (sym)\s*([\d,]+\.?\d*) match at index i
AmountMatchesAt(text, i) ==
    /\ Tok(text, i) \in CurrencySymbols
    /\ Tok(text, SkipRun(text, i + 1, Whitespace)) \in Digits \cup {","}

\* group(2) of the amount match that starts at index i
AmountGroup2(text, i) ==
    LET j == SkipRun(text, i + 1, Whitespace)
        k == SkipRun(text, j, Digits \cup {","})
        d == IF Tok(text, k) = "." THEN k + 1 ELSE k
        e == SkipRun(text, d, Digits)
    IN  SubSeq(text, j, e - 1)

\* a search that keeps the last match instead of the first
RECURSIVE AmountSearch_Last(_, _)
AmountSearch_Last(text, i) ==
    IF i > Len(text) THEN 0
    ELSE IF AmountSearch_Last(text, i + 1) # 0 THEN AmountSearch_Last(text, i + 1)
    ELSE IF AmountMatchesAt(text, i) THEN i
    ELSE 0

\* re.search: the leftmost index at which the amount pattern matches, 0 if none
RECURSIVE AmountSearch(_, _)
AmountSearch(text, i) ==
    IF i > Len(text) THEN 0
    ELSE IF AmountMatchesAt(text, i) THEN i
    ELSE AmountSearch(text, i + 1)

\* a map that gives INR for every symbol
currency_map_AllRupee(sym) == "INR"

\* currency_map.get(match.group(1), match.group(1))
currency_map(sym) ==
    CASE sym = "Rupee" -> "INR" [] sym = "Euro" -> "EUR"
      [] sym = "Dollar" -> "USD" [] sym = "Pound" -> "GBP"
      [] OTHER -> sym

\* extract_amount with a ValueError turned into the amount 0
extract_amount_ZeroOnError(text) ==
    LET m == AmountSearch(text, 1) IN
    IF m = 0 THEN <<None, None>>
    ELSE LET amount == float(StripCommas(AmountGroup2(text, m))) IN
         IF amount = None THEN <<Some(<<0, 0>>), Some(currency_map(text[m]))>>
         ELSE <<amount, Some(currency_map(text[m]))>>

\* extract_amount: <<amount, currency>>, both None or both present
extract_amount(text) ==
    LET m == AmountSearch(text, 1) IN
    IF m = 0 THEN <<None, None>>
    ELSE LET amount == float(StripCommas(AmountGroup2(text, m))) IN
         IF amount = None THEN <<None, None>>
         ELSE <<amount, Some(currency_map(text[m]))>>

\* ------------------------------------------------------------ text helpers
\* tokens that begin with "<"
Markup == {"DIV", "TITLE", "PTITLE", "BR", "LT", "BCLOSE", "BOPEN"}
\* tokens that hold no \w character a word run could end or start with
NonWord == Whitespace \cup Markup \cup CurrencySymbols
               \cup {",", ".", ":", "-", "EMSP", "GMT", "EOF"}
IsWordTok(t) == t \notin NonWord
\* the character class [A-Z0-9], one character per token
UpperAlnum == Digits \cup {"X", "A"}

\* `$`: the end of the text, or just before a line feed that ends the text
AtDollar(text, q) ==
    \/ q = Len(text) + 1
    \/ q = Len(text) /\ text[q] = "NL"

\* str.strip()
RECURSIVE RStrip(_)
RStrip(s) ==
    IF s # <<>> /\ s[Len(s)] \in Whitespace THEN RStrip(SubSeq(s, 1, Len(s) - 1))
    ELSE s

strip(s) == RStrip(SubSeq(s, SkipRun(s, 1, Whitespace), Len(s)))

\* ' '.join(s.split()): runs of blanks collapsed, none at either end
RECURSIVE Collapse(_)
Collapse(s) ==
    IF s = <<>> THEN <<>>
    ELSE IF Head(s) \in Whitespace
         THEN LET r == Collapse(SubSeq(s, SkipRun(s, 1, Whitespace), Len(s)))
              IN  IF r = <<>> THEN <<>> ELSE <<"SP">> \o r
         ELSE <<Head(s)>> \o Collapse(Tail(s))

JoinSplit(s) == Collapse(strip(s))

\* are the n tokens of text from index i all in S
RunOf(text, i, n, S) ==
    /\ i + n - 1 <= Len(text)
    /\ \A k \in i..(i + n - 1) : text[k] \in S

\* ------------------------------------------------------------- recipient
\* the index after `VERB\s+[sym][\d.,]+\s+(?:to|from|by)\s+` matched at p
\* (where capture group 1 starts), 0 when that prefix does not match at p
RecipientPrefix(text, p) ==
    LET a == SkipRun(text, p + 1, Whitespace)
        b == SkipRun(text, a + 1, Digits \cup {".", ","})
        c == SkipRun(text, b, Whitespace)
        d == SkipRun(text, c + 1, Whitespace)
    IN  IF /\ Tok(text, p) \in {"Paid", "Sent", "Received"}
           /\ a > p + 1
           /\ Tok(text, a) \in CurrencySymbols
           /\ b > a + 1
           /\ c > b
           /\ Tok(text, c) \in {"to", "from", "by"}
           /\ d > c + 1
        THEN d ELSE 0

\* what may follow the blanks that end a lazy group: `using` or `via` after a
\* recipient, `XXXXXXX` or `XXXX` after a payment method
AfterBlanks(text, i, kind) ==
    IF kind = "recipient" THEN Tok(text, i) \in {"using", "via"}
    ELSE RunOf(text, i, 4, {"X"})

\* the end (exclusive) of the lazy group `[^\n<]+?` that starts at a and is
\* followed by `\s+` and what AfterBlanks names, `<br`, `\n` or `$`; 0 when
\* no end exists.  The group never holds a line feed or a tag.
RECURSIVE LazyGroupEnd(_, _, _, _)
LazyGroupEnd(text, a, q, kind) ==
    IF q > Len(text) + 1 THEN 0
    ELSE IF /\ q > a
            /\ \/ AtDollar(text, q)
               \/ Tok(text, q) \in {"BR", "NL"}
               \/ /\ Tok(text, q) \in Whitespace
                  /\ AfterBlanks(text, SkipRun(text, q, Whitespace), kind)
         THEN q
    ELSE IF Tok(text, q) \in Markup \cup {"NL", "EOF"} THEN 0
    ELSE LazyGroupEnd(text, a, q + 1, kind)

\* the lazy group tried from start a down to start lo: `\s+` before the group
\* is greedy and gives its blanks back one by one, each of which then opens
\* the group.  <<start, end>> of the first group that can be ended, <<0, 0>>
\* when none can.
RECURSIVE GroupFrom(_, _, _, _)
GroupFrom(text, a, lo, kind) ==
    IF a < lo THEN <<0, 0>>
    ELSE IF LazyGroupEnd(text, a, a, kind) # 0
         THEN <<a, LazyGroupEnd(text, a, a, kind)>>
    ELSE GroupFrom(text, a - 1, lo, kind)

\* the index after the `to`, `from` or `by` of the recipient prefix matched
\* at p (one blank at least follows it)
ConnectorEnd(text, p) ==
    LET a == SkipRun(text, p + 1, Whitespace)
        b == SkipRun(text, a + 1, Digits \cup {".", ","})
    IN  SkipRun(text, b, Whitespace) + 1

\* re.search of patterns['recipient']: <<start of group 1, end of group 1>>
\* of the leftmost match, <<0, 0>> when none
RECURSIVE RecipientSearch(_, _)
RecipientSearch(text, p) ==
    IF p > Len(text) THEN <<0, 0>>
    ELSE LET a == RecipientPrefix(text, p)
             m == IF a = 0 THEN <<0, 0>>
                  ELSE GroupFrom(text, a, ConnectorEnd(text, p) + 1, "recipient")
         IN  IF m[1] # 0 THEN m ELSE RecipientSearch(text, p + 1)

\* re.sub(r'\s+(using|via|through).*', '', s)
RECURSIVE CutMethodClause(_, _)
CutMethodClause(s, i) ==
    IF i > Len(s) THEN s
    ELSE IF /\ s[i] \in Whitespace
            /\ Tok(s, SkipRun(s, i, Whitespace)) \in {"using", "via", "through"}
         THEN SubSeq(s, 1, i - 1)
    ELSE CutMethodClause(s, i + 1)

extract_recipient(text) ==
    LET m == RecipientSearch(text, 1) IN
    IF m[1] = 0 THEN None
    ELSE LET g == strip(SubSeq(text, m[1], m[2] - 1))
             r == CutMethodClause(SelectSeq(g, LAMBDA t : t # "EMSP"), 1)
         IN  IF r = <<>> THEN None ELSE Some(strip(r))

\* -------------------------------------------------------- payment method
\* re.search of patterns['payment_method']: <<start, end>> of group 1 of the
\* leftmost match, <<0, 0>> when none
RECURSIVE MethodSearch(_, _)
MethodSearch(text, p) ==
    IF p > Len(text) THEN <<0, 0>>
    ELSE LET a == SkipRun(text, p + 1, Whitespace)
             m == IF Tok(text, p) \in {"using", "via", "through"} /\ a > p + 1
                  THEN GroupFrom(text, a, p + 2, "method") ELSE <<0, 0>>
         IN  IF m[1] # 0 THEN m ELSE MethodSearch(text, p + 1)

\* the end (exclusive) of `XXXXXXX[A-Z0-9]{6,}` at j, 0 when it does not match
LongMaskEnd(s, j) ==
    LET e == SkipRun(s, j + 7, UpperAlnum) IN
    IF RunOf(s, j, 7, {"X"}) /\ e >= j + 13 THEN e ELSE 0

\* the end (exclusive) of `[A-Z0-9]{4}XXXXXXX[A-Z0-9]{4}` at j, 0 when no match
MidMaskEnd(s, j) ==
    IF /\ RunOf(s, j, 4, UpperAlnum)
       /\ RunOf(s, j + 4, 7, {"X"})
       /\ RunOf(s, j + 11, 4, UpperAlnum)
    THEN j + 15 ELSE 0

MaskEnd(s, j, long) == IF long THEN LongMaskEnd(s, j) ELSE MidMaskEnd(s, j)

\* re.sub(r'\s+MASK', '', s) for the long or the middle mask
RECURSIVE RemoveMasks(_, _, _)
RemoveMasks(s, i, long) ==
    IF i > Len(s) THEN <<>>
    ELSE LET e == IF s[i] \in Whitespace
                  THEN MaskEnd(s, SkipRun(s, i, Whitespace), long) ELSE 0
         IN  IF e # 0 THEN RemoveMasks(s, e, long)
             ELSE <<s[i]>> \o RemoveMasks(s, i + 1, long)

extract_payment_method(text) ==
    LET m == MethodSearch(text, 1) IN
    IF m[1] = 0 THEN None
    ELSE LET g == strip(SubSeq(text, m[1], m[2] - 1))
             method == JoinSplit(RemoveMasks(RemoveMasks(g, 1, TRUE), 1, FALSE))
         IN  IF method = <<>> THEN None ELSE Some(method)

\* -------------------------------------------------------- account number
\* the end (exclusive) of patterns['account_number'] matched at i, the three
\* alternatives tried in order; 0 when none matches
AccountMatchEnd(text, i) ==
    LET e3 == SkipRun(text, i + 3, Digits) IN
    IF LongMaskEnd(text, i) # 0 THEN LongMaskEnd(text, i)
    ELSE IF MidMaskEnd(text, i) # 0 THEN MidMaskEnd(text, i)
    ELSE IF RunOf(text, i, 3, {"X"}) /\ e3 > i + 3 THEN e3
    ELSE 0

RECURSIVE AccountSearch(_, _)
AccountSearch(text, i) ==
    IF i > Len(text) THEN <<0, 0>>
    ELSE IF AccountMatchEnd(text, i) # 0 THEN <<i, AccountMatchEnd(text, i)>>
    ELSE AccountSearch(text, i + 1)

extract_account_number(text) ==
    LET m == AccountSearch(text, 1) IN
    IF m[1] = 0 THEN None ELSE Some(SubSeq(text, m[1], m[2] - 1))

\* ---------------------------------------------------------------- status
\* a vocabulary that is consulted for "Failed" first
statuses_FailedFirst ==
    <<"Failed", "Completed", "Pending", "Cancelled", "Processing">>

statuses == <<"Completed", "Pending", "Failed", "Cancelled", "Processing">>

\* patterns['status'] matched at p: <<start, end>> of group 1, <<0, 0>> if not
StatusMatchAt(text, p) ==
    LET a == SkipRun(text, p + 1, Whitespace \cup {":"})
        b == IF Tok(text, a) = "BCLOSE" /\ Tok(text, a + 1) = "BR"
                  /\ Tok(text, a + 2) = "EMSP"
             THEN a + 3 ELSE a
        e == SkipRun(text, b, {t \in Range(text) : IsWordTok(t)})
    IN  IF /\ Tok(text, p) \in {"Status", "State"}
           /\ e > b
           /\ (Tok(text, e) = "BR" \/ AtDollar(text, e))
        THEN <<b, e>> ELSE <<0, 0>>

RECURSIVE StatusSearch(_, _)
StatusSearch(text, p) ==
    IF p > Len(text) THEN <<0, 0>>
    ELSE IF StatusMatchAt(text, p)[1] # 0 THEN StatusMatchAt(text, p)
    ELSE StatusSearch(text, p + 1)

\* the first word of the vocabulary, from index k on, that the text contains
RECURSIVE FirstLiteral(_, _)
FirstLiteral(text, k) ==
    IF k > Len(statuses) THEN None
    ELSE IF Contains(text, {statuses[k]}) THEN Some(<<statuses[k]>>)
    ELSE FirstLiteral(text, k + 1)

\* an extractor that consults the labelled pattern before the vocabulary
extract_status_LabelFirst(text) ==
    LET m == StatusSearch(text, 1) IN
    IF m[1] # 0 THEN Some(SubSeq(text, m[1], m[2] - 1))
    ELSE FirstLiteral(text, 1)

extract_status(text) ==
    IF FirstLiteral(text, 1) # None THEN FirstLiteral(text, 1)
    ELSE LET m == StatusSearch(text, 1) IN
         IF m[1] = 0 THEN None ELSE Some(SubSeq(text, m[1], m[2] - 1))

\* ------------------------------------------------------------- timestamp
\* Month names, AM and PM are words; "-" separates the fields of a normalized
\* date, and "T" and "Z" are the letters of the ISO form.
\*
\* The patterns of the timestamps are sequences of items, each a class of
\* tokens repeated between min and max times (max 0: any number of times):
\*   \d a digit, \s a blank, \w a word character, AM|PM one of the two words,
\*   [A-Za-z0-9] one of the characters an identifier is written in, [^\n<]
\*   anything but a line feed and a tag, any other class the token of that
\*   name.
InClass(t, class) ==
    CASE class = "\\d" -> t \in Digits
      [] class = "\\s" -> t \in Whitespace
      [] class = "\\w" -> IsWordTok(t)
      [] class = "AM|PM" -> t \in {"AM", "PM"}
      [] class = "[A-Za-z0-9]" -> t \in UpperAlnum
      [] class = "[^\\n<]" -> t \notin Markup \cup {"NL"}
      [] OTHER -> t = class

Rep(class, min, max) == [class |-> class, min |-> min, max |-> max]
Plus(class) == Rep(class, 1, 0)
Lit(class) == Rep(class, 1, 1)

\* the number of tokens from index i on that are in the class, at most max
RECURSIVE ClassRun(_, _, _, _)
ClassRun(text, i, class, max) ==
    IF i <= Len(text) /\ max # 1 /\ InClass(text[i], class)
    THEN 1 + ClassRun(text, i + 1, class, max - 1)
    ELSE IF i <= Len(text) /\ InClass(text[i], class) THEN 1 ELSE 0

\* re.match of the items k.. of pat at index i: the end (exclusive) of every
\* item, None when they do not match.  An item takes as many tokens as it
\* can and gives them back one by one while the rest does not match.
RECURSIVE Match(_, _, _, _)
RECURSIVE Take(_, _, _, _, _)
Take(text, i, pat, k, n) ==
    IF n < pat[k].min THEN None
    ELSE LET rest == Match(text, i + n, pat, k + 1) IN
         IF rest # None THEN Some(<<i + n>> \o rest[1])
         ELSE Take(text, i, pat, k, n - 1)

Match(text, i, pat, k) ==
    IF k > Len(pat) THEN Some(<<>>)
    ELSE Take(text, i, pat, k, ClassRun(text, i, pat[k].class, pat[k].max))

\* the indices from p on at which a match can start: every pattern begins
\* with an item that takes at least one token of its class
Starts(text, p, class) ==
    SelectSeq([i \in 1..Len(text) |-> i],
              LAMBDA i : i >= p /\ InClass(text[i], class))

\* the start and the item ends of the first match at one of the indices
RECURSIVE FirstMatch(_, _, _)
FirstMatch(text, starts, pat) ==
    IF starts = <<>> THEN None
    ELSE LET m == Match(text, Head(starts), pat, 1) IN
         IF m # None THEN Some([start |-> Head(starts), ends |-> m[1]])
         ELSE FirstMatch(text, Tail(starts), pat)

\* re.search: the start and the item ends of the leftmost match, None
Search(text, p, pat) == FirstMatch(text, Starts(text, p, pat[1].class), pat)

\* the tokens item k of the match m took
Group(text, m, k) ==
    SubSeq(text, IF k = 1 THEN m.start ELSE m.ends[k - 1], m.ends[k] - 1)

\* patterns['timestamp_format1']
timestamp_format1 ==
    <<Rep("\\d", 1, 2), Plus("\\s"), Plus("\\w"), Lit(","), Plus("\\s"),
      Rep("\\d", 4, 4), Lit(","), Plus("\\s"), Rep("\\d", 1, 2), Lit(":"),
      Rep("\\d", 2, 2), Lit(":"), Rep("\\d", 2, 2), Plus("\\s"), Lit("AM|PM"),
      Plus("\\s"), Lit("GMT")>>

\* patterns['timestamp_format2']
timestamp_format2 ==
    <<Rep("\\d", 1, 2), Plus("\\s"), Plus("\\w"), Plus("\\s"),
      Rep("\\d", 4, 4), Lit(","), Plus("\\s"), Rep("\\d", 1, 2), Lit(":"),
      Rep("\\d", 2, 2), Lit(":"), Rep("\\d", 2, 2), Plus("\\s"), Lit("GMT")>>

\* (\w+)\s+(\d{1,2}),\s+(\d{4}): month, day and year are items 1, 3 and 6
month_day ==
    <<Plus("\\w"), Plus("\\s"), Rep("\\d", 1, 2), Lit(","), Plus("\\s"),
      Rep("\\d", 4, 4)>>

\* (\w+)\s+(\d{1,2}),\s+(\d{4}),\s+(\d{1,2}):(\d{2}):(\d{2})\s+(AM|PM): hour,
\* minute, second and AM or PM are items 9, 11, 13 and 15
month_day_time ==
    month_day \o
    <<Lit(","), Plus("\\s"), Rep("\\d", 1, 2), Lit(":"), Rep("\\d", 2, 2),
      Lit(":"), Rep("\\d", 2, 2), Plus("\\s"), Lit("AM|PM")>>

\* (\d{1,2})\s+(\w+)\s+(\d{4}),\s+(\d{1,2}):(\d{2}):(\d{2}): day, month, year,
\* hour, minute and second are items 1, 3, 5, 8, 10 and 12
day_month_time ==
    <<Rep("\\d", 1, 2), Plus("\\s"), Plus("\\w"), Plus("\\s"),
      Rep("\\d", 4, 4), Lit(","), Plus("\\s"), Rep("\\d", 1, 2), Lit(":"),
      Rep("\\d", 2, 2), Lit(":"), Rep("\\d", 2, 2)>>

\* _month_to_num: months.get(month_str, 1)
month_to_num(month_str) ==
    IF Len(month_str) # 1 THEN 1
    ELSE CASE month_str[1] = "Jan" -> 1  [] month_str[1] = "Feb" -> 2
           [] month_str[1] = "Mar" -> 3  [] month_str[1] = "Apr" -> 4
           [] month_str[1] = "May" -> 5  [] month_str[1] = "Jun" -> 6
           [] month_str[1] = "Jul" -> 7  [] month_str[1] = "Aug" -> 8
           [] month_str[1] = "Sep" -> 9  [] month_str[1] = "Oct" -> 10
           [] month_str[1] = "Nov" -> 11 [] month_str[1] = "Dec" -> 12
           [] OTHER -> 1

\* int(s) of a digit string, and str(n)
int(s) == DigitsValue(s, 0)

DigitTok(n) ==
    CASE n = 0 -> "0" [] n = 1 -> "1" [] n = 2 -> "2" [] n = 3 -> "3"
      [] n = 4 -> "4" [] n = 5 -> "5" [] n = 6 -> "6" [] n = 7 -> "7"
      [] n = 8 -> "8" [] n = 9 -> "9"

RECURSIVE str(_)
str(n) == IF n < 10 THEN <<DigitTok(n)>> ELSE str(n \div 10) \o <<DigitTok(n % 10)>>

\* f"{n:02d}"
Pad02(n) == IF n < 10 THEN <<"0">> \o str(n) ELSE str(n)

\* a conversion that adds 12 to every PM hour and leaves every AM hour
To24_AddTwelve(hour, ampm) == IF ampm = "PM" THEN hour + 12 ELSE hour

\* the 12-hour to 24-hour step: `if ampm == 'PM' and hour != 12: hour += 12`,
\* `elif ampm == 'AM' and hour == 12: hour = 0`
To24(hour, ampm) ==
    IF ampm = "PM" /\ hour # 12 THEN hour + 12
    ELSE IF ampm = "AM" /\ hour = 12 THEN 0
    ELSE hour

\* f"{year}-{month_num:02d}-{int(day):02d}{sep}{int(hour):02d}:{minute}:{second}"
FormatStamp(year, month_str, day, hour, minute, second, sep) ==
    year \o <<"-">> \o Pad02(month_to_num(month_str)) \o <<"-">>
        \o Pad02(int(day)) \o <<sep>> \o Pad02(hour) \o <<":">>
        \o minute \o <<":">> \o second

\* the string formatted from a match m of month_day_time in s
MonthDayStamp(s, m, sep) ==
    FormatStamp(Group(s, m, 6), Group(s, m, 1), Group(s, m, 3),
                To24(int(Group(s, m, 9)), Group(s, m, 15)[1]),
                Group(s, m, 11), Group(s, m, 13), sep)

\* the string formatted from a match m of day_month_time in s
DayMonthStamp(s, m) ==
    FormatStamp(Group(s, m, 5), Group(s, m, 3), Group(s, m, 1),
                int(Group(s, m, 8)), Group(s, m, 10), Group(s, m, 12), "SP")

\* what _normalize_timestamp returns for the stripped string s: miss when
\* neither pattern is found in it
Normalized(s, miss) ==
    LET m1 == Search(s, 1, month_day_time) IN
    IF m1 # None THEN MonthDayStamp(s, m1[1], "SP")
    ELSE LET m2 == Search(s, 1, day_month_time) IN
         IF m2 # None THEN DayMonthStamp(s, m2[1]) ELSE miss

\* a normalizer that gives up (the empty string) on what it cannot parse
normalize_timestamp_EmptyOnMiss(ts_) ==
    Normalized(strip(SelectSeq(ts_, LAMBDA t : t # "EMSP")), <<>>)

\* _normalize_timestamp
normalize_timestamp(ts_) ==
    LET s == strip(SelectSeq(ts_, LAMBDA t : t # "EMSP")) IN Normalized(s, s)

\* match.group(1) of a search m whose pattern is one group of n items
Group1(text, m, n) ==
    IF m = None THEN None
    ELSE Some(SubSeq(text, m[1].start, m[1].ends[n] - 1))

\* the first of two optional values that is present
OrElse(a, b) == IF a # None THEN a ELSE b

\* `return self._normalize_timestamp(match.group(1))`, None without a match
NormalizedMatch(group) ==
    IF group = None THEN None ELSE Some(normalize_timestamp(group[1]))

\* extract_timestamp of flexible_parser
extract_timestamp(text) ==
    NormalizedMatch(
        OrElse(Group1(text, Search(text, 1, timestamp_format1), 17),
               Group1(text, Search(text, 1, timestamp_format2), 14)))

\* the date-only string of the last search of parse_html_to_json
DateStamp(s, m) ==
    Group(s, m, 6) \o <<"-">> \o Pad02(month_to_num(Group(s, m, 1))) \o <<"-">>
        \o Pad02(int(Group(s, m, 3)))
        \o <<"T", "0", "0", ":", "0", "0", ":", "0", "0", "Z">>

\* extract_timestamp of parse_html_to_json (its second search repeats the
\* first and so never decides)
json_extract_timestamp(text) ==
    LET m1 == Search(text, 1, month_day_time) IN
    IF m1 # None THEN Some(MonthDayStamp(text, m1[1], "T") \o <<"Z">>)
    ELSE LET m3 == Search(text, 1, month_day) IN
         IF m3 # None THEN Some(DateStamp(text, m3[1])) ELSE None

\* ------------------------------------------------------- transaction id
\* <b>Details:</b\s*><br\s*/>&emsp;([A-Za-z0-9]+): the group is item 7
details_primary ==
    <<Lit("BOPEN"), Lit("Details"), Lit(":"), Lit("BCLOSE"), Lit("BR"),
      Lit("EMSP"), Plus("[A-Za-z0-9]")>>

\* Details\s*:?<br\s*/>&emsp;([A-Za-z0-9]{6,}): the group is item 6
details_secondary ==
    <<Lit("Details"), Rep("\\s", 0, 0), Rep(":", 0, 1), Lit("BR"), Lit("EMSP"),
      Rep("[A-Za-z0-9]", 6, 0)>>

\* the tokens item k of an optional match took, None without a match
GroupOf(text, m, k) == IF m = None THEN None ELSE Some(Group(text, m[1], k))

\* an identifier of any length from the primary pattern
LongEnough_Any(tid) == Some(tid)

\* `return tid if len(tid) > 3 else None`
LongEnough(tid) == IF Len(tid) > 3 THEN Some(tid) ELSE None

\* the primary match decides when there is one, whatever its length
PrimaryOrSecondary(first, second) ==
    IF first # None THEN LongEnough(first[1]) ELSE second

extract_transaction_id(text) ==
    PrimaryOrSecondary(GroupOf(text, Search(text, 1, details_primary), 7),
                       GroupOf(text, Search(text, 1, details_secondary), 6))

\* ---------------------------------------------------------------- product
\* <b>Products:</b><br\s*/>&emsp;([^\n<]+): the group is item 7
products ==
    <<Lit("BOPEN"), Lit("Products"), Lit(":"), Lit("BCLOSE"), Lit("BR"),
      Lit("EMSP"), Plus("[^\\n<]")>>

GooglePay == <<"Google", "SP", "Pay">>

\* 'Google Pay' in text: written out, or inside the title of an entry
ContainsGooglePay(text) ==
    \/ "TITLE" \in Range(text)
    \/ \E i \in 1..(Len(text) - 2) :
           /\ text[i] = "Google"
           /\ SubSeq(text, i, i + 2) = GooglePay

\* the group stripped, without &emsp;, cut at the first "<" (it holds none)
\* and stripped again
Cleaned(group) == strip(SelectSeq(strip(group), LAMBDA t : t # "EMSP"))

\* `return product if product else None`
NonEmpty(product) == IF product # <<>> THEN Some(product) ELSE None

ProductOr(group, fallback) ==
    IF group # None THEN NonEmpty(Cleaned(group[1])) ELSE fallback

extract_product(text) ==
    ProductOr(GroupOf(text, Search(text, 1, products), 7),
              IF ContainsGooglePay(text) THEN Some(GooglePay) ELSE None)

\* ------------------------------------------------------- record assembly
\* a record whose wallet is left as it was initialised
Mirror_Unset(extracted) == extracted

\* extracted['wallet'] = extracted['product']
Mirror(extracted) == [extracted EXCEPT !.wallet = extracted.product]

\* the fields of a fragment, as extract_from_transaction_block fills them
Extracted(block) ==
    Mirror([amount         |-> extract_amount(block)[1],
            currency       |-> extract_amount(block)[2],
            recipient      |-> extract_recipient(block),
            payment_method |-> extract_payment_method(block),
            account_number |-> extract_account_number(block),
            transaction_id |-> extract_transaction_id(block),
            status         |-> extract_status(block),
            timestamp      |-> extract_timestamp(block),
            product        |-> extract_product(block),
            wallet         |-> None])

\* the record assembly without the final test of the amount
extract_from_transaction_block_NoAmountGate(block) ==
    IF ~Contains(block, Verbs) THEN None ELSE Some(Extracted(block))

\* the record assembly without the screen for an action verb
extract_from_transaction_block_NoVerbScreen(block) ==
    IF Extracted(block).amount # None THEN Some(Extracted(block)) ELSE None

\* the record of a fragment: one optional value per extracted field
extract_from_transaction_block(block) ==
    IF ~Contains(block, Verbs) THEN None
    ELSE LET extracted == Extracted(block)
         IN  IF extracted.amount # None THEN Some(extracted) ELSE None

\* extract_from_transaction_block of parse_html_to_json: the same method,
\* which calls the extract_timestamp of its own class
WithTimestamp(r, timestamp) ==
    IF r = None THEN None ELSE Some([r[1] EXCEPT !.timestamp = timestamp])

json_extract_from_transaction_block(block) ==
    WithTimestamp(extract_from_transaction_block(block),
                  json_extract_timestamp(block))

\* ---------------------------------------------------------- segmentation
\* A fragment is kept as its span [s, e] of the document.
Text(doc, b) == SubSeq(doc, b.s, b.e)

\* where the lazy `.*?(?=STOP|$)` that starts at q ends (exclusive)
RECURSIVE LazyStop(_, _, _)
LazyStop(text, q, stops) ==
    IF Tok(text, q) \in stops \/ AtDollar(text, q) THEN q
    ELSE LazyStop(text, q + 1, stops)

\* re.findall of `START.*?(?=STOP|$)` from index i on
RECURSIVE MarkedBlocks(_, _, _, _)
MarkedBlocks(text, i, starts, stops) ==
    LET p == FindTok(text, i, starts) IN
    IF p > Len(text) THEN <<>>
    ELSE LET q == LazyStop(text, p + 1, stops)
         IN  <<[s |-> p, e |-> q - 1]>> \o MarkedBlocks(text, q, starts, stops)

ContainerBlocks(text) == MarkedBlocks(text, 1, {"DIV"}, {"DIV"})

TitleBlocks(text) == MarkedBlocks(text, 1, {"TITLE"}, {"TITLE", "PTITLE"})

\* the last index of `VERB\s+[sym][\d.,]+.*?GMT` matched at p, 0 when no match
ScanMatchEnd(text, p) ==
    LET a == SkipRun(text, p + 1, Whitespace)
        b == SkipRun(text, a + 1, Digits \cup {".", ","})
        g == FindTok(text, b, {"GMT"})
    IN  IF /\ Tok(text, p) \in Verbs
           /\ a > p + 1
           /\ Tok(text, a) \in CurrencySymbols
           /\ b > a + 1
           /\ g <= Len(text)
        THEN g ELSE 0

RECURSIVE ScanBlocks(_, _)
ScanBlocks(text, p) ==
    IF p > Len(text) THEN <<>>
    ELSE IF ScanMatchEnd(text, p) # 0
         THEN <<[s |-> p, e |-> ScanMatchEnd(text, p)]>>
                  \o ScanBlocks(text, ScanMatchEnd(text, p) + 1)
    ELSE ScanBlocks(text, p + 1)

\* a threshold that lets a single fragment through
TooFew_EmptyOnly(bs) == bs = <<>>

\* `not blocks or len(blocks) < 2`
TooFew(bs) == bs = <<>> \/ Len(bs) < 2

\* a fallback that keeps the single fragment of the tiers before the scan
Segment_KeepSingle(text) ==
    LET b1 == ContainerBlocks(text)
        b2 == IF TooFew(b1) THEN TitleBlocks(text) ELSE b1
        b3 == IF TooFew(b2) THEN b2 \o ScanBlocks(text, 1) ELSE b2
    IN  b3

\* the blocks parse_html_file loops over
Segment(text) ==
    LET b1 == ContainerBlocks(text)
        b2 == IF TooFew(b1) THEN TitleBlocks(text) ELSE b1
        b3 == IF TooFew(b2) THEN ScanBlocks(text, 1) ELSE b2
    IN  b3

\* -------------------------------------------------------------- documents
\* A document is the concatenation of at most MaxPieces of these pieces.
ScenarioOne ==
    <<"DIV", "Paid", "SP", "Rupee", "1", "5", "0", ".", "0", "0", "SP", "to",
      "SP", "Starbucks", "SP", "using", "SP", "Credit", "SP", "Card", "SP",
      "X", "X", "X", "X", "1", "2", "3", "4", "BR", "Status", ":", "SP",
      "Completed", "LT">>

Pieces ==
    << <<"DIV", "Paid", "SP", "Rupee", "1", "5", "LT">>,
       <<"DIV", "Sent", "SP", "Rupee", ",", "LT">>,
       <<"DIV", "Dollar", "7", "LT">>,
       <<"TITLE", "Received", "SP", "Pound", "2", "0", "SP", "GMT">>,
       <<"PTITLE">>,
       <<"Paid", "SP", "Rupee", "1", "5">>,
       <<"Sent", "SP", "Rupee", ",">>,
       <<"Credited", "SP", "Euro", "SP", "2", ".", "5">>,
       <<"SP", "GMT">>,
       <<"NL">>,
       ScenarioOne >>

RECURSIVE Concat(_, _)
Concat(pick, k) ==
    IF k > Len(pick) THEN <<>> ELSE Pieces[pick[k]] \o Concat(pick, k + 1)

Docs ==
    {Concat(pick, 1) :
        pick \in UNION {[1..n -> 1..Len(Pieces)] : n \in 0..MaxPieces}}

\* the file at the path: unreadable (missing or undecodable) or a document
Files == {[readable |-> FALSE, content |-> <<>>]}
             \cup {[readable |-> TRUE, content |-> d] : d \in Docs}

\* ------------------------------------------------------------ timestamps
\* A timestamp as it is written in a document: the month token, the day and
\* the hour as numbers, the minute as two digits, AM or PM, in one of the
\* shapes
\*   MonthDay       Jul 28, 2024, 4:24:58 PM GMT+05:30
\*   DayMonthComma  28 Jul, 2024, 4:24:58 PM GMT+05:30
\*   DayMonth       28 Jul 2024, 16:24:58 GMT+05:30
\*   Canonical      2024-07-28 16:24:58
Shapes == {"MonthDay", "DayMonthComma", "DayMonth", "Canonical"}

Year == <<"2", "0", "2", "4">>
Second == <<"5", "8">>

Render(g) ==
    LET clock == str(g.hour) \o <<":">> \o g.minute \o <<":">> \o Second
    IN  CASE g.shape = "MonthDay" ->
               <<g.month, "SP">> \o str(g.day) \o <<",", "SP">> \o Year
                   \o <<",", "SP">> \o clock \o <<"SP", g.ampm, "SP", "GMT">>
          [] g.shape = "DayMonthComma" ->
               str(g.day) \o <<"SP", g.month, ",", "SP">> \o Year
                   \o <<",", "SP">> \o clock \o <<"SP", g.ampm, "SP", "GMT">>
          [] g.shape = "DayMonth" ->
               str(g.day) \o <<"SP", g.month, "SP">> \o Year
                   \o <<",", "SP">> \o clock \o <<"SP", "GMT">>
          [] g.shape = "Canonical" ->
               Year \o <<"-">> \o Pad02(month_to_num(<<g.month>>)) \o <<"-">>
                   \o Pad02(g.day) \o <<"SP">> \o Pad02(g.hour) \o <<":">>
                   \o g.minute \o <<":">> \o Second

\* the timestamps the timestamp functions are applied to; only the shapes
\* with AM or PM are written with both
Givens ==
    {g \in [shape  : Shapes,
            month  : {"Jul", "Dec", "7"},
            day    : {3, 28},
            hour   : 0..MaxHour,
            minute : {<<"0", "0">>, <<"3", "0">>},
            ampm   : {"AM", "PM"}] :
        g.shape \in {"DayMonth", "Canonical"} => g.ampm = "AM"}

\* what precedes the timestamp in the fragment the extractors are given
Prefix == <<"Paid", "SP", "Rupee", "1", "5", "BR">>

\* ------------------------------------------------------------------ batch
Stamp(shape, month, day, hour, ampm) ==
    Render([shape |-> shape, month |-> month, day |-> day, hour |-> hour,
            minute |-> <<"2", "4">>, ampm |-> ampm])

\* a container block with an amount and, after a line break, a timestamp
Block(amount, stamp) ==
    <<"DIV", "Paid", "SP", "Rupee">> \o amount \o <<"BR">> \o stamp \o <<"LT">>

\* the documents of a batch
BatchDocs ==
    { Block(<<"1", "5">>, Stamp("DayMonth", "Jul", 28, 16, "AM"))
          \o Block(<<"7">>, Stamp("DayMonth", "Aug", 3, 9, "AM")),
      Block(<<"1", "5">>, Stamp("DayMonthComma", "Jul", 28, 4, "PM"))
          \o Block(<<"2", "0">>, <<>>),
      Block(<<"0">>, Stamp("DayMonth", "Jul", 28, 16, "AM"))
          \o Block(<<",">>, <<>>),
      Block(<<"1", "5">>, Stamp("MonthDay", "Jul", 28, 4, "PM"))
          \o Block(<<"7">>, Stamp("DayMonth", "Jan", 1, 0, "AM")),
      <<"LT", "Hello", "LT">> }

BatchFiles == {[readable |-> FALSE, content |-> <<>>]}
                  \cup {[readable |-> TRUE, content |-> d] : d \in BatchDocs}

\* the code points of a token, as Python compares strings
Chars(t) ==
    CASE t = "NL" -> <<10>> [] t = "SP" -> <<32>> [] t = "," -> <<44>>
      [] t = "-" -> <<45>>  [] t = "." -> <<46>>  [] t = ":" -> <<58>>
      [] t \in Digits -> <<48 + DigitVal(t)>>
      [] t = "AM" -> <<65, 77>>        [] t = "PM" -> <<80, 77>>
      [] t = "GMT" -> <<71, 77, 84, 43, 48, 53, 58, 51, 48>>
      [] t = "Jan" -> <<74, 97, 110>>  [] t = "Feb" -> <<70, 101, 98>>
      [] t = "Mar" -> <<77, 97, 114>>  [] t = "Apr" -> <<65, 112, 114>>
      [] t = "May" -> <<77, 97, 121>>  [] t = "Jun" -> <<74, 117, 110>>
      [] t = "Jul" -> <<74, 117, 108>> [] t = "Aug" -> <<65, 117, 103>>
      [] t = "Sep" -> <<83, 101, 112>> [] t = "Oct" -> <<79, 99, 116>>
      [] t = "Nov" -> <<78, 111, 118>> [] t = "Dec" -> <<68, 101, 99>>

RECURSIVE Spell(_)
Spell(str_) == IF str_ = <<>> THEN <<>> ELSE Chars(Head(str_)) \o Spell(Tail(str_))

\* a < b for two sequences of code points
RECURSIVE CodesLess(_, _)
CodesLess(a, b) ==
    IF b = <<>> THEN FALSE
    ELSE IF a = <<>> THEN TRUE
    ELSE IF Head(a) # Head(b) THEN Head(a) < Head(b)
    ELSE CodesLess(Tail(a), Tail(b))

\* a < b for two strings
StrLess(a, b) == CodesLess(Spell(a), Spell(b))

\* the orders of the rows at the indices S in which no timestamp is followed
\* by a greater one; rows with equal timestamps come in any order
RECURSIVE Descending(_, _)
Descending(rows, S) ==
    IF S = {} THEN {<<>>}
    ELSE LET top == {i \in S : \A j \in S :
                        ~StrLess(rows[i].timestamp[1], rows[j].timestamp[1])}
         IN  UNION {{<<i>> \o rest : rest \in Descending(rows, S \ {i})} :
                        i \in top}

\* the rows at the indices S in the order of their indices
RECURSIVE InOrder(_, _)
InOrder(rows, S) ==
    IF S = {} THEN <<>>
    ELSE LET i == CHOOSE k \in S : \A j \in S : k <= j
         IN  <<rows[i]>> \o InOrder(rows, S \ {i})

\* df.sort_values('timestamp', ascending=False, na_position='last'): the
\* tables it can return
sort_values(rows) ==
    LET with == {i \in 1..Len(rows) : rows[i].timestamp # None}
        without == {i \in 1..Len(rows) : rows[i].timestamp = None}
    IN  {[k \in 1..Len(order) |-> rows[order[k]]] \o InOrder(rows, without) :
            order \in Descending(rows, with)}

\* -------------------------------------------------------------- fragments
\* A fragment the extractors are applied to is the concatenation of at most
\* MaxParts of these parts.  An identifier is written in single characters,
\* and only the part of three digits begins with one, so that no word stands
\* against the end of an identifier.
Parts ==
    << <<"BR", "Paid", "SP", "Rupee", "1", "5">>,
       <<"SP", "Failed">>,
       <<"SP", "Completed">>,
       <<"BR", "Status", ":", "SP", "Done">>,
       <<"BR", "State", ":", "BCLOSE", "BR", "EMSP", "Cancelled", "BR">>,
       <<"BOPEN", "Details", ":", "BCLOSE", "BR", "EMSP", "A", "1", "2">>,
       <<"BR", "Details", "SP", ":", "BR", "EMSP", "X", "7", "7">>,
       <<"4", "5", "6">>,
       <<"BOPEN", "Products", ":", "BCLOSE", "BR", "EMSP", "Bus", "SP", "Pass",
         "BR">>,
       <<"BOPEN", "Products", ":", "BCLOSE", "BR", "EMSP", "SP", "EMSP",
         "BR">>,
       <<"TITLE">>,
       <<"SP", "Google", "SP", "Pay">>,
       <<".", "NL">> >>

RECURSIVE Join(_, _)
Join(pick, k) ==
    IF k > Len(pick) THEN <<>> ELSE Parts[pick[k]] \o Join(pick, k + 1)

Fragments ==
    {Join(pick, 1) :
        pick \in UNION {[1..n -> 1..Len(Parts)] : n \in 0..MaxParts}}

\* ------------------------------------------------------------------ state
VARIABLES
    mode,           \* "cli": main() of parse_html_to_json; "direct": a caller
                    \* of parse_html_file
    argv,           \* the arguments after the script name
    file,           \* the file at the path
    pc,             \* the position in main() and parse_html_file
    content,        \* parse_html_file: the text read
    blocks,         \* parse_html_file: the fragments
    idx,            \* parse_html_file: the index of the next fragment
    transactions,   \* parse_html_file: the records so far
    origin,         \* history: the fragment index each record came from
    stdout,         \* what main() printed, one entry per print
    exit_code,      \* the exit status of the process, None while it runs
    filepaths,      \* parse_multiple_files: the files of the batch
    fidx,           \* parse_multiple_files: the index of the next file
    all_transactions, \* parse_multiple_files: the records gathered so far
    df,             \* parse_multiple_files: the rows of the table returned
    results,        \* history: the list parse_html_file returned per file
    given,          \* timestamp functions: how the input was written
    ts,             \* timestamp functions: the input text
    normalized,     \* Some(_normalize_timestamp(ts)) once computed
    renormalized,   \* Some(_normalize_timestamp(normalized)) once computed
    table_ts,       \* Some(extract_timestamp) of flexible_parser, once computed
    json_ts,        \* Some(extract_timestamp) of parse_html_to_json, likewise
    block,          \* extractors: the fragment they are applied to
    status,         \* Some(extract_status(block)) once computed
    transaction_id, \* Some(extract_transaction_id(block)) once computed
    product,        \* Some(extract_product(block)) once computed
    extracted,      \* Some(extract_from_transaction_block(block)), likewise
    jobs_collection, \* app: the MongoDB collection, None when not connected
    documents,      \* app: the documents of the collection, by job_id
    jobs_store,     \* app: the dictionary jobs_store, by job_id
    threads,        \* app: the background threads, by the order of start
    response,       \* history: the code and the status of the last response
    returned,       \* history: the job_ids start_job answered with
    failures        \* history: how many operations on the collection raised

batch_vars == <<filepaths, fidx, all_transactions, df, results>>
stamp_vars == <<given, ts, normalized, renormalized, table_ts, json_ts>>
field_vars == <<block, status, transaction_id, product, extracted>>
job_vars == <<jobs_collection, documents, jobs_store, threads, response,
              returned, failures>>

vars == <<mode, argv, file, pc, content, blocks, idx, transactions, origin,
          stdout, exit_code, batch_vars, stamp_vars, field_vars, job_vars>>

\* the state of a run in which app.py is not loaded
NoJobs ==
    /\ jobs_collection = None
    /\ documents = <<>>
    /\ jobs_store = <<>>
    /\ threads = <<>>
    /\ response = None
    /\ returned = {}
    /\ failures = 0

Init ==
    /\ mode \in {"cli", "direct"}
    /\ argv \in IF mode = "cli" THEN {<<>>, <<"path">>} ELSE {<<"path">>}
    /\ file \in Files
    /\ pc = IF mode = "cli" THEN "main" ELSE "open"
    /\ content = <<>>
    /\ blocks = <<>>
    /\ idx = 1
    /\ transactions = <<>>
    /\ origin = <<>>
    /\ stdout = <<>>
    /\ exit_code = None
    /\ filepaths = <<>>
    /\ fidx = 1
    /\ all_transactions = <<>>
    /\ df = <<>>
    /\ results = <<>>
    /\ given = None
    /\ ts = <<>>
    /\ normalized = None
    /\ renormalized = None
    /\ table_ts = None
    /\ json_ts = None
    /\ block = <<>>
    /\ status = None
    /\ transaction_id = None
    /\ product = None
    /\ extracted = None
    /\ NoJobs

\* a bare `except:`, which catches SystemExit too
Catches_BareExcept(exc) == TRUE

\* does `except Exception` of main() catch the exception
Catches(exc) == exc # "SystemExit"

\* main(): `if len(sys.argv) < 2`: print the error object and sys.exit(1)
MainNoPath ==
    /\ pc = "main"
    /\ Len(argv) + 1 < 2
    /\ stdout' = Append(stdout, [kind |-> "object", error |-> TRUE])
    /\ exit_code' = Some(1)
    /\ pc' = "exited"
    /\ UNCHANGED <<mode, argv, file, content, blocks, idx, transactions, origin>>
    /\ UNCHANGED <<batch_vars, stamp_vars, field_vars, job_vars>>

\* main(): the call of parse_html_file inside the try
MainCall ==
    /\ pc = "main"
    /\ ~(Len(argv) + 1 < 2)
    /\ pc' = "open"
    /\ UNCHANGED <<mode, argv, file, content, blocks, idx, transactions,
                   origin, stdout, exit_code>>
    /\ UNCHANGED <<batch_vars, stamp_vars, field_vars, job_vars>>

\* parse_html_file: open() and read(); an unreadable file raises, into the
\* handler of main() or out of parse_html_file to a direct caller
Open ==
    /\ pc = "open"
    /\ IF file.readable
       THEN /\ content' = file.content
            /\ pc' = "segment"
       ELSE /\ content' = content
            /\ pc' = IF mode = "cli" /\ Catches("OSError") THEN "except"
                     ELSE "raised"
    /\ UNCHANGED <<mode, argv, file, blocks, idx, transactions, origin,
                   stdout, exit_code>>
    /\ UNCHANGED <<batch_vars, stamp_vars, field_vars, job_vars>>

\* a segmentation that raises when it finds no fragment
FindBlocks_RaiseOnEmpty ==
    /\ pc = "segment"
    /\ blocks' = Segment(content)
    /\ transactions' = <<>>
    /\ origin' = <<>>
    /\ idx' = 1
    /\ pc' = IF Segment(content) # <<>> THEN "loop"
             ELSE IF mode = "cli" THEN "except" ELSE "raised"
    /\ UNCHANGED <<mode, argv, file, content, stdout, exit_code>>
    /\ UNCHANGED <<batch_vars, stamp_vars, field_vars, job_vars>>

\* a segmentation that keeps the records of the call before
FindBlocks_KeepRecords ==
    /\ pc = "segment"
    /\ blocks' = Segment(content)
    /\ idx' = 1
    /\ pc' = "loop"
    /\ UNCHANGED <<mode, argv, file, content, stdout, exit_code, transactions,
                   origin>>
    /\ UNCHANGED <<batch_vars, stamp_vars, field_vars, job_vars>>

\* parse_html_file: the three findall tiers
FindBlocks ==
    /\ pc = "segment"
    /\ blocks' = Segment(content)
    /\ transactions' = <<>>
    /\ origin' = <<>>
    /\ idx' = 1
    /\ pc' = "loop"
    /\ UNCHANGED <<mode, argv, file, content, stdout, exit_code>>
    /\ UNCHANGED <<batch_vars, stamp_vars, field_vars, job_vars>>

\* an insert at the front instead of an append
AppendRecord_Front(txs, tx) == <<tx>> \o txs

\* `transactions.append(transaction)`
AppendRecord(txs, tx) == Append(txs, tx)

\* parse_html_file: one turn of `for block in blocks`; the command line and
\* its test run the class of parse_html_to_json, a batch that of
\* flexible_parser
ProcessBlock ==
    /\ pc = "loop"
    /\ idx <= Len(blocks)
    /\ \E transaction \in
              {IF mode = "batch"
               THEN extract_from_transaction_block(Text(content, blocks[idx]))
               ELSE json_extract_from_transaction_block(
                        Text(content, blocks[idx]))} :
           IF transaction # None
           THEN /\ transactions' = AppendRecord(transactions, transaction[1])
                /\ origin' = AppendRecord(origin, idx)
           ELSE UNCHANGED <<transactions, origin>>
    /\ idx' = idx + 1
    /\ UNCHANGED <<mode, argv, file, pc, content, blocks, stdout, exit_code>>
    /\ UNCHANGED <<batch_vars, stamp_vars, field_vars, job_vars>>

\* parse_html_file: `return transactions`
Return ==
    /\ pc = "loop"
    /\ idx > Len(blocks)
    /\ pc' = CASE mode = "cli" -> "print"
               [] mode = "batch" -> "extend"
               [] OTHER -> "returned"
    /\ UNCHANGED <<mode, argv, file, content, blocks, idx, transactions,
                   origin, stdout, exit_code>>
    /\ UNCHANGED <<batch_vars, stamp_vars, field_vars, job_vars>>

\* main(): print(json.dumps(transactions))
MainPrint ==
    /\ pc = "print"
    /\ stdout' = Append(stdout, [kind |-> "array", records |-> transactions])
    /\ pc' = "sysexit"
    /\ UNCHANGED <<mode, argv, file, content, blocks, idx, transactions,
                   origin, exit_code>>
    /\ UNCHANGED <<batch_vars, stamp_vars, field_vars, job_vars>>

\* main(): sys.exit(0) raises SystemExit inside the try
MainExit ==
    /\ pc = "sysexit"
    /\ pc' = IF Catches("SystemExit") THEN "except" ELSE "exited"
    /\ exit_code' = IF Catches("SystemExit") THEN exit_code ELSE Some(0)
    /\ UNCHANGED <<mode, argv, file, content, blocks, idx, transactions,
                   origin, stdout>>
    /\ UNCHANGED <<batch_vars, stamp_vars, field_vars, job_vars>>

\* main(): the except clause: print the error object and sys.exit(1)
MainExcept ==
    /\ pc = "except"
    /\ stdout' = Append(stdout, [kind |-> "object", error |-> TRUE])
    /\ exit_code' = Some(1)
    /\ pc' = "exited"
    /\ UNCHANGED <<mode, argv, file, content, blocks, idx, transactions, origin>>
    /\ UNCHANGED <<batch_vars, stamp_vars, field_vars, job_vars>>

Next ==
    \/ MainNoPath
    \/ MainCall
    \/ Open
    \/ FindBlocks
    \/ ProcessBlock
    \/ Return
    \/ MainPrint
    \/ MainExit
    \/ MainExcept

Spec == Init /\ [][Next]_vars

\* ------------------------------------------------- parse_multiple_files
BatchInit ==
    /\ mode = "batch"
    /\ argv = <<>>
    /\ filepaths \in UNION {[1..n -> BatchFiles] : n \in 0..MaxFiles}
    /\ file = [readable |-> FALSE, content |-> <<>>]
    /\ pc = "batch"
    /\ content = <<>>
    /\ blocks = <<>>
    /\ idx = 1
    /\ transactions = <<>>
    /\ origin = <<>>
    /\ stdout = <<>>
    /\ exit_code = None
    /\ fidx = 1
    /\ all_transactions = <<>>
    /\ df = <<>>
    /\ results = <<>>
    /\ given = None
    /\ ts = <<>>
    /\ normalized = None
    /\ renormalized = None
    /\ table_ts = None
    /\ json_ts = None
    /\ block = <<>>
    /\ status = None
    /\ transaction_id = None
    /\ product = None
    /\ extracted = None
    /\ NoJobs

\* `for filepath in filepaths`: the call of parse_html_file for the next file
BatchCall ==
    /\ pc = "batch"
    /\ fidx <= Len(filepaths)
    /\ file' = filepaths[fidx]
    /\ pc' = "open"
    /\ UNCHANGED <<mode, argv, content, blocks, idx, transactions, origin,
                   stdout, exit_code, batch_vars, stamp_vars, field_vars, job_vars>>

\* `all_transactions.extend(transactions)`
BatchExtend ==
    /\ pc = "extend"
    /\ all_transactions' = all_transactions \o transactions
    /\ results' = Append(results, transactions)
    /\ fidx' = fidx + 1
    /\ pc' = "batch"
    /\ UNCHANGED <<mode, argv, file, content, blocks, idx, transactions,
                   origin, stdout, exit_code, filepaths, df, stamp_vars,
                   field_vars, job_vars>>

\* after the loop: the table, sorted when it has a timestamp column (it has
\* one as soon as it has a row), is returned
BatchSort ==
    /\ pc = "batch"
    /\ fidx > Len(filepaths)
    /\ df' \in sort_values(all_transactions)
    /\ pc' = "batch_returned"
    /\ UNCHANGED <<mode, argv, file, content, blocks, idx, transactions,
                   origin, stdout, exit_code, filepaths, fidx,
                   all_transactions, results, stamp_vars, field_vars, job_vars>>

BatchNext ==
    \/ BatchCall
    \/ Open
    \/ FindBlocks
    \/ ProcessBlock
    \/ Return
    \/ BatchExtend
    \/ BatchSort

BatchSpec == BatchInit /\ [][BatchNext]_vars

\* -------------------------------------------------- timestamp functions
StampInit ==
    /\ mode = "stamp"
    /\ given \in {Some(g) : g \in Givens}
    /\ ts = Render(given[1])
    /\ normalized = None
    /\ renormalized = None
    /\ table_ts = None
    /\ json_ts = None
    /\ argv = <<>>
    /\ file = [readable |-> FALSE, content |-> <<>>]
    /\ pc = "stamp"
    /\ content = <<>>
    /\ blocks = <<>>
    /\ idx = 1
    /\ transactions = <<>>
    /\ origin = <<>>
    /\ stdout = <<>>
    /\ exit_code = None
    /\ filepaths = <<>>
    /\ fidx = 1
    /\ all_transactions = <<>>
    /\ df = <<>>
    /\ results = <<>>
    /\ block = <<>>
    /\ status = None
    /\ transaction_id = None
    /\ product = None
    /\ extracted = None
    /\ NoJobs

parser_vars == <<mode, argv, file, pc, content, blocks, idx, transactions,
                 origin, stdout, exit_code>>

\* _normalize_timestamp(ts)
NormalizeStamp ==
    /\ pc = "stamp"
    /\ normalized = None
    /\ normalized' = Some(normalize_timestamp(ts))
    /\ UNCHANGED <<parser_vars, batch_vars, field_vars, job_vars, given, ts, renormalized, table_ts,
                   json_ts>>

\* _normalize_timestamp of what _normalize_timestamp returned
NormalizeAgain ==
    /\ pc = "stamp"
    /\ normalized # None
    /\ renormalized = None
    /\ renormalized' = Some(normalize_timestamp(normalized[1]))
    /\ UNCHANGED <<parser_vars, batch_vars, field_vars, job_vars, given, ts, normalized, table_ts,
                   json_ts>>

\* extract_timestamp of flexible_parser on a fragment that holds ts
ExtractTable ==
    /\ pc = "stamp"
    /\ table_ts = None
    /\ table_ts' = Some(extract_timestamp(Prefix \o ts))
    /\ UNCHANGED <<parser_vars, batch_vars, field_vars, job_vars, given, ts, normalized,
                   renormalized, json_ts>>

\* extract_timestamp of parse_html_to_json on the same fragment
ExtractJson ==
    /\ pc = "stamp"
    /\ json_ts = None
    /\ json_ts' = Some(json_extract_timestamp(Prefix \o ts))
    /\ UNCHANGED <<parser_vars, batch_vars, field_vars, job_vars, given, ts, normalized,
                   renormalized, table_ts>>

StampNext ==
    \/ NormalizeStamp
    \/ NormalizeAgain
    \/ ExtractTable
    \/ ExtractJson

StampSpec == StampInit /\ [][StampNext]_vars

\* ------------------------------------------------------------ extractors
FieldInit ==
    /\ mode = "field"
    /\ block \in Fragments
    /\ status = None
    /\ transaction_id = None
    /\ product = None
    /\ extracted = None
    /\ NoJobs
    /\ argv = <<>>
    /\ file = [readable |-> FALSE, content |-> <<>>]
    /\ pc = "field"
    /\ content = <<>>
    /\ blocks = <<>>
    /\ idx = 1
    /\ transactions = <<>>
    /\ origin = <<>>
    /\ stdout = <<>>
    /\ exit_code = None
    /\ filepaths = <<>>
    /\ fidx = 1
    /\ all_transactions = <<>>
    /\ df = <<>>
    /\ results = <<>>
    /\ given = None
    /\ ts = <<>>
    /\ normalized = None
    /\ renormalized = None
    /\ table_ts = None
    /\ json_ts = None

\* extract_status(block)
ExtractStatus ==
    /\ pc = "field"
    /\ status = None
    /\ status' = Some(extract_status(block))
    /\ UNCHANGED <<parser_vars, batch_vars, stamp_vars, job_vars, block, transaction_id,
                   product, extracted>>

\* extract_transaction_id(block)
ExtractTransactionId ==
    /\ pc = "field"
    /\ transaction_id = None
    /\ transaction_id' = Some(extract_transaction_id(block))
    /\ UNCHANGED <<parser_vars, batch_vars, stamp_vars, job_vars, block, status, product,
                   extracted>>

\* extract_product(block)
ExtractProduct ==
    /\ pc = "field"
    /\ product = None
    /\ product' = Some(extract_product(block))
    /\ UNCHANGED <<parser_vars, batch_vars, stamp_vars, job_vars, block, status,
                   transaction_id, extracted>>

\* extract_from_transaction_block(block)
ExtractRecord ==
    /\ pc = "field"
    /\ extracted = None
    /\ extracted' = Some(extract_from_transaction_block(block))
    /\ UNCHANGED <<parser_vars, batch_vars, stamp_vars, job_vars, block, status,
                   transaction_id, product>>

FieldNext ==
    \/ ExtractStatus
    \/ ExtractTransactionId
    \/ ExtractProduct
    \/ ExtractRecord

FieldSpec == FieldInit /\ [][FieldNext]_vars

\* -------------------------------------------------------------------- app
\* The job store and the background threads of app.py.
\*
\* A job dictionary holds the keys status, result, error, completed_at and
\* input_data; a key that the dictionary does not have is None.  The keys
\* that start_job sets and nothing changes afterwards (status_id,
\* created_at, the blockchain identifiers, the times and input_hash) are
\* left out, and so is input_groups, which provide_input extends in the way
\* it updates input_data and nothing reads.  result and error are "set" when
\* the dictionary has them, completed_at holds the index of the thread that
\* set it, and input_data is "upload" with the name and the size of the
\* uploaded file, "html" once provide_input put the text of a file in its
\* place.
\*
\* jobs_store holds the dictionaries themselves: what get_job returns from
\* it is the stored dictionary, and an assignment to it changes the entry.
\* What get_job returns from the collection is a copy.
\*
\* `if jobs_collection:` is taken to succeed when there is a collection.  An
\* operation on the collection succeeds or raises, and at most MaxFailures
\* of them raise.  Every job starts a thread, so that there are at most
\* MaxThreads jobs.  uuid4 never gives the
\* same job_id twice.  A request is well-formed JSON or form data.  A step
\* is a request from its first to its last statement, or a part of _process
\* that looks the job up at most once: get_job, the assignments to the
\* dictionary and save_job are taken together.
JobIds == 1..MaxThreads

\* the outcomes of the operations on the collection that a step of the
\* program makes, the first one first: TRUE when the operation succeeds
Outcomes(n) ==
    IF jobs_collection = None THEN {[k \in 1..n |-> TRUE]}
    ELSE {o \in [1..n -> BOOLEAN] :
              failures + Cardinality({k \in 1..n : ~o[k]}) <= MaxFailures}

\* the number of operations that raised, after a step with the outcomes o
Raised(o) == failures + Cardinality({k \in DOMAIN o : ~o[k]})

\* job_data of start_job
job_data ==
    [status |-> "processing", result |-> None, error |-> None,
     completed_at |-> None, input_data |-> "upload"]

\* update_one({"job_id": job_id}, {"$set": job_data}, upsert=True) on the
\* document doc: the keys of job_data are set, the other keys are kept
SetFields(doc, data) ==
    IF doc = None THEN Some(data)
    ELSE Some([status       |-> data.status,
               input_data   |-> data.input_data,
               result       |-> IF data.result # None THEN data.result
                                ELSE doc[1].result,
               error        |-> IF data.error # None THEN data.error
                                ELSE doc[1].error,
               completed_at |-> IF data.completed_at # None
                                THEN data.completed_at
                                ELSE doc[1].completed_at])

\* save_job(job_id, job_data): the collection and jobs_store afterwards,
\* store being jobs_store before
save_job(store, job_id, data, ok) ==
    IF jobs_collection # None /\ ok
    THEN [documents  |-> [documents EXCEPT ![job_id] = SetFields(@, data)],
          jobs_store |-> store]
    ELSE [documents  |-> documents,
          jobs_store |-> [store EXCEPT ![job_id] = Some(data)]]

\* get_job(job_id): the dictionary, None when there is none, and whether it
\* is the one jobs_store holds
get_job(job_id, ok) ==
    IF jobs_collection # None /\ ok
    THEN [stored |-> FALSE, data |-> documents[job_id]]
    ELSE [stored |-> TRUE, data |-> jobs_store[job_id]]

\* jobs_store after the assignments that make the dictionary g hold data
Assigned(g, job_id, data) ==
    IF g.stored THEN [jobs_store EXCEPT ![job_id] = Some(data)]
    ELSE jobs_store

\* a response: the HTTP code, the "status" and the "message" of the body, the
\* "job_id" and, for /status, the result, error and completed_at it carries
Response(code, status_, message, job_id, job) ==
    Some([code |-> code, status |-> status_, message |-> message,
          job_id |-> job_id, job |-> job])

Error(code, message) == Response(code, "error", Some(message), None, None)

\* what is kept of a response that was sent: the code and the "status"
Sent(r) == Some([code |-> r[1].code, status |-> r[1].status])

\* ---- start_job
StartRequests ==
    [identifier_from_purchaser : {None, Some("buyer")},
     html_file : {None} \cup
         {Some([filename |-> f, content |-> c]) :
              f \in {"", "a.html"}, c \in {"", "html"}}]

\* a validation that takes an empty file for a job
StartRejection_NoEmptyCheck(req) ==
    IF req.identifier_from_purchaser = None
    THEN Error(400, "identifier_from_purchaser is required")
    ELSE IF req.html_file = None THEN Error(400, "html_file is required")
    ELSE IF req.html_file[1].filename = "" THEN Error(400, "No file selected")
    ELSE None

\* the response start_job returns before it creates a job, None when the
\* request passes
StartRejection(req) ==
    IF req.identifier_from_purchaser = None
    THEN Error(400, "identifier_from_purchaser is required")
    ELSE IF req.html_file = None THEN Error(400, "html_file is required")
    ELSE IF req.html_file[1].filename = "" THEN Error(400, "No file selected")
    ELSE IF req.html_file[1].content = "" THEN Error(400, "HTML file is empty")
    ELSE None

\* a thread as threading.Thread(target=_process).start() leaves it
NewThread(job_id) == [job_id |-> job_id, pc |-> "analyze"]

\* start_job with a request that passes: save_job, then process_job_async
Accept(job_id, ok) ==
    LET saved == save_job(jobs_store, job_id, job_data, ok) IN
    /\ documents' = saved.documents
    /\ jobs_store' = saved.jobs_store
    /\ threads' = Append(threads, NewThread(job_id))
    /\ returned' = returned \cup {job_id}
    /\ response' = Sent(Response(200, "success", None, Some(job_id), None))

start_job(req) ==
    /\ mode = "app"
    /\ IF StartRejection(req) # None
       THEN /\ response' = Sent(StartRejection(req))
            /\ UNCHANGED <<documents, jobs_store, threads, returned, failures>>
       ELSE /\ Len(threads) < MaxThreads
            /\ \E o \in Outcomes(1) :
                   /\ Accept(Cardinality(returned) + 1, o[1])
                   /\ failures' = Raised(o)
    /\ UNCHANGED <<parser_vars, batch_vars, stamp_vars, field_vars,
                   jobs_collection>>

\* ---- /status
StatusRequests == [job_id : {None} \cup {Some(j) : j \in JobIds}]

\* the response of /status for the dictionary with the contents data
StatusOf(job_id, data) ==
    Response(200, data.status, None, Some(job_id),
             Some([result |-> data.result, error |-> data.error,
                   completed_at |-> data.completed_at]))

\* the response of /status for what get_job returned
StatusResponse(job_id, g) ==
    IF g.data = None THEN Error(404, "Job not found")
    ELSE StatusOf(job_id, g.data[1])

get_job_status(req) ==
    /\ mode = "app"
    /\ IF req.job_id = None
       THEN /\ response' =
                   Sent(Error(400, "job_id query parameter is required"))
            /\ UNCHANGED failures
       ELSE \E o \in Outcomes(1) :
                /\ response' = Sent(StatusResponse(
                                    req.job_id[1], get_job(req.job_id[1], o[1])))
                /\ failures' = Raised(o)
    /\ UNCHANGED <<parser_vars, batch_vars, stamp_vars, field_vars,
                   jobs_collection, documents, jobs_store, threads, returned>>

\* ---- provide_input
InputRequests ==
    [job_id : {None} \cup {Some(j) : j \in JobIds},
     status_id : {None, Some("sid")},
     input_data : {None, Some("html")}]

\* job['input_data'].update(input_data)
Update(input_data, given_) == IF given_ = None THEN input_data ELSE "html"

\* the dictionary after provide_input merged the request into it
Merged(data, req) == [data EXCEPT !.input_data = Update(@, req.input_data)]

\* the response provide_input returns before it touches a job, None when the
\* request passes; g is what get_job returned
InputRejection(req, g) ==
    IF req.job_id = None \/ req.status_id = None
    THEN Error(400, "job_id and status_id are required")
    ELSE IF g.data = None THEN Error(404, "Job not found")
    ELSE None

\* provide_input from the merge on: the merge, save_job, process_job_async
\* when the request brought the text of a file, and the response
Merge(req, g, data, ok) ==
    LET saved == save_job(Assigned(g, req.job_id[1], data), req.job_id[1],
                          data, ok)
    IN  /\ documents' = saved.documents
        /\ jobs_store' = saved.jobs_store
        /\ threads' = IF req.input_data = Some("html")
                      THEN Append(threads, NewThread(req.job_id[1]))
                      ELSE threads
        /\ response' = Sent(Response(200, "success", None, None, None))

provide_input_mip003(req) ==
    /\ mode = "app"
    /\ IF req.job_id = None \/ req.status_id = None
       THEN /\ response' = Sent(InputRejection(
                                    req, [stored |-> TRUE, data |-> None]))
            /\ UNCHANGED <<documents, jobs_store, threads, failures>>
       ELSE \E o \in Outcomes(2) : \E g \in {get_job(req.job_id[1], o[1])} :
                IF InputRejection(req, g) # None
                THEN /\ o[2]
                     /\ response' = Sent(InputRejection(req, g))
                     /\ failures' = Raised(o)
                     /\ UNCHANGED <<documents, jobs_store, threads>>
                ELSE /\ req.input_data = Some("html")
                         => Len(threads) < MaxThreads
                     /\ Merge(req, g, Merged(g.data[1], req), o[2])
                     /\ failures' = Raised(o)
    /\ UNCHANGED <<parser_vars, batch_vars, stamp_vars, field_vars,
                   jobs_collection, returned>>

\* ---- _process
\* what analyze_html_file and the reading of its answer come to: a JSON
\* object, no answer, an answer without a JSON object, or an exception
Analyses == {"json", "none", "nojson", "raises"}

\* _process up to the point where the job is looked up
Analysis(t) ==
    /\ threads[t].pc = "analyze"
    /\ \E analysis \in Analyses :
           threads' = [threads EXCEPT
                           ![t].pc = IF analysis = "json" THEN "update"
                                     ELSE "except"]
    /\ UNCHANGED <<parser_vars, batch_vars, stamp_vars, field_vars,
                   jobs_collection, documents, jobs_store, response, returned,
                   failures>>

\* the assignments to the dictionary, in the try statement ("update") or in
\* its except clause, by thread t
Outcome(data, at, t) ==
    IF at = "update"
    THEN [data EXCEPT !.status = "completed", !.result = Some("set"),
                      !.completed_at = Some(t)]
    ELSE [data EXCEPT !.status = "failed", !.error = Some("set"),
                      !.completed_at = Some(t)]

\* where the thread goes on when get_job returned None: the assignment
\* job['status'] = ... raises TypeError, which the try statement catches and
\* its except clause does not
Missed(at) == IF at = "update" THEN "except" ELSE "died"

\* the assignments and save_job(job_id, job); the thread ends
Store(t, g, data, ok) ==
    LET saved == save_job(Assigned(g, threads[t].job_id, data),
                          threads[t].job_id, data, ok)
    IN  /\ documents' = saved.documents
        /\ jobs_store' = saved.jobs_store
        /\ threads' = [threads EXCEPT ![t].pc = "done"]

\* job = get_job(job_id) and what follows it, in the try statement or in its
\* except clause
Conclusion(t) ==
    /\ threads[t].pc \in {"update", "except"}
    /\ \E o \in Outcomes(2) : \E g \in {get_job(threads[t].job_id, o[1])} :
           /\ failures' = Raised(o)
           /\ IF g.data = None
              THEN /\ o[2]
                   /\ threads' = [threads EXCEPT ![t].pc = Missed(@)]
                   /\ UNCHANGED <<documents, jobs_store>>
              ELSE Store(t, g, Outcome(g.data[1], threads[t].pc, t), o[2])
    /\ UNCHANGED <<parser_vars, batch_vars, stamp_vars, field_vars,
                   jobs_collection, response, returned>>

\* the module is loaded: the collection when MongoDB answers, None otherwise
JobInit ==
    /\ mode = "app"
    /\ jobs_collection \in {None, Some("jobs")}
    /\ documents = [j \in JobIds |-> None]
    /\ jobs_store = [j \in JobIds |-> None]
    /\ threads = <<>>
    /\ response = None
    /\ returned = {}
    /\ failures = 0
    /\ block = <<>>
    /\ status = None
    /\ transaction_id = None
    /\ product = None
    /\ extracted = None
    /\ argv = <<>>
    /\ file = [readable |-> FALSE, content |-> <<>>]
    /\ pc = "app"
    /\ content = <<>>
    /\ blocks = <<>>
    /\ idx = 1
    /\ transactions = <<>>
    /\ origin = <<>>
    /\ stdout = <<>>
    /\ exit_code = None
    /\ filepaths = <<>>
    /\ fidx = 1
    /\ all_transactions = <<>>
    /\ df = <<>>
    /\ results = <<>>
    /\ given = None
    /\ ts = <<>>
    /\ normalized = None
    /\ renormalized = None
    /\ table_ts = None
    /\ json_ts = None

\* a request to /start_job, to /status, to /provide_input; a step of a thread
StartJob == \E req \in StartRequests : start_job(req)

GetJobStatus == \E req \in StatusRequests : get_job_status(req)

ProvideInput == \E req \in InputRequests : provide_input_mip003(req)

Analyze == \E t \in DOMAIN threads : Analysis(t)

Finish == \E t \in DOMAIN threads : Conclusion(t)

JobNext ==
    \/ StartJob
    \/ GetJobStatus
    \/ ProvideInput
    \/ Analyze
    \/ Finish

JobSpec == JobInit /\ [][JobNext]_vars

\* ================================================================ claims
\* the text of fragment k, the fragments the loop is done with, and whether a
\* record came from fragment k
Fragment(k) == Text(content, blocks[k])
Processed == 1..(idx - 1)
Segmented == pc \in {"loop", "returned", "print", "sysexit", "exited"}
Returned == pc \in {"returned", "print", "sysexit", "exited"}
Emitted(k) == \E j \in 1..Len(origin) : origin[j] = k
RecordsOf(k) == {j \in 1..Len(origin) : origin[j] = k}

\* the value of the amount pattern matched at index i of text (None: float()
\* raises ValueError)
AmountAt(text, i) == float(StripCommas(AmountGroup2(text, i)))
\* the indices of text at which the amount pattern matches
AmountMatches(text) == {i \in 1..Len(text) : AmountMatchesAt(text, i)}
HasParsableAmount(text) == \E i \in AmountMatches(text) : AmountAt(text, i) # None
FirstAmountMatch(text) ==
    CHOOSE i \in AmountMatches(text) : \A j \in AmountMatches(text) : i <= j

\* C1: every record, and so every element of the list parse_html_file
\* returns, has an amount; a fragment for which extract_amount finds no
\* amount produces no record.
C1_AmountPresent ==
    /\ \A j \in 1..Len(transactions) : transactions[j].amount # None
    /\ \A k \in Processed : extract_amount(Fragment(k))[1] = None => ~Emitted(k)

\* a fragment with a verb, a recipient and a status but a corrupted amount was
\* processed next to one that gave a record
C1_Witness ==
    /\ pc = "returned"
    /\ transactions # <<>>
    /\ \E k \in Processed :
          /\ Contains(Fragment(k), Verbs)
          /\ extract_amount(Fragment(k))[1] = None
          /\ AmountMatches(Fragment(k)) # {}

\* C2: a fragment that contains none of Paid, Sent, Received, Credited gives
\* no record, whatever amount or other content it has.
C2_NoVerbNoRecord ==
    \A k \in Processed : ~Contains(Fragment(k), Verbs) => ~Emitted(k)

\* a fragment without a verb but with a parsable amount was processed
C2_Witness ==
    /\ pc = "returned"
    /\ \E k \in Processed :
          /\ ~Contains(Fragment(k), Verbs)
          /\ extract_amount(Fragment(k))[1] # None

\* C3 as stated: every fragment with a verb and a parsable currency-prefixed
\* amount anywhere in it gives exactly one record.
C3_Original ==
    \A k \in Processed :
        Contains(Fragment(k), Verbs) /\ HasParsableAmount(Fragment(k))
            => Cardinality(RecordsOf(k)) = 1

\* C3 (amended): a fragment with a verb whose FIRST match of the amount
\* pattern is parsable gives exactly one record, and the amount and currency
\* of that record are those of this first match.
C3_FirstAmountRecord ==
    \A k \in Processed :
        LET t == Fragment(k) IN
        /\ Contains(t, Verbs)
        /\ AmountMatches(t) # {}
        /\ AmountAt(t, FirstAmountMatch(t)) # None
        => /\ Cardinality(RecordsOf(k)) = 1
           /\ \A j \in RecordsOf(k) :
                 /\ transactions[j].amount = AmountAt(t, FirstAmountMatch(t))
                 /\ transactions[j].currency
                        = Some(currency_map(t[FirstAmountMatch(t)]))

\* a fragment with two parsable amounts of different value gave its record
C3_Witness ==
    /\ pc = "returned"
    /\ \E k \in Processed :
          LET t == Fragment(k) IN
          /\ Contains(t, Verbs)
          /\ Emitted(k)
          /\ \E i, j \in AmountMatches(t) :
                /\ i < j
                /\ AmountAt(t, i) # None
                /\ AmountAt(t, j) # None
                /\ AmountAt(t, i) # AmountAt(t, j)

\* the indices of the tokens of text that are in S
Occurrences(text, S) == {i \in 1..Len(text) : text[i] \in S}

\* C4: the tiers are tried in the order container marker, title marker,
\* scan, and the fragments are those of the first tier that yields at least
\* two; a document with no container marker and two or more Google Pay
\* titles is cut at its titles, one fragment per title.
C4_TierOrder ==
    Segmented =>
        LET b1 == ContainerBlocks(content)
            b2 == TitleBlocks(content)
            b3 == ScanBlocks(content, 1)
        IN  /\ Len(b1) >= 2 => blocks = b1
            /\ Len(b1) < 2 /\ Len(b2) >= 2 => blocks = b2
            /\ Len(b1) < 2 /\ Len(b2) < 2 /\ Len(b3) >= 2 => blocks = b3
            /\ /\ Occurrences(content, {"DIV"}) = {}
               /\ Cardinality(Occurrences(content, {"TITLE"})) >= 2
               => /\ Len(blocks) = Cardinality(Occurrences(content, {"TITLE"}))
                  /\ \A k \in 1..Len(blocks) : content[blocks[k].s] = "TITLE"

\* a document with one container block and two title blocks was cut at its
\* titles
C4_Witness ==
    /\ Segmented
    /\ Len(ContainerBlocks(content)) = 1
    /\ Len(TitleBlocks(content)) = 2
    /\ blocks = TitleBlocks(content)
    /\ blocks # ContainerBlocks(content)

\* is there a verb, blanks, a currency symbol and a numeral at index p
VerbAmountAt(text, p) ==
    LET a == SkipRun(text, p + 1, Whitespace) IN
    /\ Tok(text, p) \in Verbs
    /\ a > p + 1
    /\ Tok(text, a) \in CurrencySymbols
    /\ Tok(text, a + 1) \in Digits

\* a container-marker block, a title-marker block, or a verb followed by a
\* currency amount
HasMarker(text) ==
    \/ Contains(text, {"DIV"})
    \/ Contains(text, {"TITLE"})
    \/ \E p \in 1..Len(text) : VerbAmountAt(text, p)

\* C5: a document with at least one recognizable transaction marker is cut
\* into a non-empty list of fragments.
C5_MarkerGivesFragments ==
    Segmented /\ HasMarker(content) => blocks # <<>>

\* the record the Starbucks scenario is to give
ScenarioOneRecord ==
    [amount         |-> Some(<<150, 0>>),
     currency       |-> Some("INR"),
     recipient      |-> Some(<<"Starbucks">>),
     payment_method |-> Some(<<"Credit", "SP", "Card">>),
     account_number |-> Some(<<"X", "X", "X", "X", "1", "2", "3", "4">>),
     transaction_id |-> None,
     status         |-> Some(<<"Completed">>),
     timestamp      |-> None,
     product        |-> None,
     wallet         |-> None]

\* C6: the document with the one container block `Paid Rs150.00 to Starbucks
\* using Credit Card XXXX1234<br/>Status: Completed` is parsed into exactly
\* one record, with amount 150.00, INR, Starbucks, Credit Card, XXXX1234 and
\* Completed.
C6_ScenarioOne ==
    Returned /\ content = ScenarioOne => transactions = <<ScenarioOneRecord>>

\* C7: the records are in fragment order: the fragments are disjoint spans
\* in document order, each record is the record of its own fragment, the
\* fragments of the records strictly increase, and at the end exactly the
\* fragments that are not rejected have a record.
C7_DiscoveryOrder ==
    /\ Len(origin) = Len(transactions)
    /\ \A j, k \in 1..Len(blocks) : j < k => blocks[j].e < blocks[k].s
    /\ \A j, k \in 1..Len(origin) : j < k => origin[j] < origin[k]
    /\ \A j \in 1..Len(origin) :
          /\ origin[j] \in Processed
          /\ Some(transactions[j]) = extract_from_transaction_block(Fragment(origin[j]))
    /\ Returned =>
          \A k \in 1..Len(blocks) :
              Emitted(k) <=> extract_from_transaction_block(Fragment(k)) # None

\* two different records came out around a rejected fragment
C7_Witness ==
    /\ pc = "returned"
    /\ origin = <<1, 3>>
    /\ transactions[1] # transactions[2]

\* a fragment whose amount token is corrupted: the amount pattern matches and
\* float() of its first match raises ValueError
CorruptedAmount(text) ==
    /\ AmountMatches(text) # {}
    /\ AmountAt(text, FirstAmountMatch(text)) = None

\* a fragment with a verb whose first amount token is a number
GoodFragment(text) ==
    /\ Contains(text, Verbs)
    /\ AmountMatches(text) # {}
    /\ AmountAt(text, FirstAmountMatch(text)) # None

\* a document of two container blocks, block g good and the other corrupted
TwoBlocksOneCorrupted(doc, g) ==
    LET b == ContainerBlocks(doc) IN
    /\ Len(b) = 2
    /\ g \in {1, 2}
    /\ GoodFragment(Text(doc, b[g]))
    /\ CorruptedAmount(Text(doc, b[3 - g]))

C9_EmptyIsNoError ==
    /\ argv # <<>>
    /\ file.readable
    /\ \/ /\ ContainerBlocks(file.content) = <<>>
          /\ TitleBlocks(file.content) = <<>>
          /\ ScanBlocks(file.content, 1) = <<>>
       \/ ~Contains(file.content, Verbs)
    => /\ pc \notin {"raised", "except"}
       /\ transactions = <<>>
       /\ \A j \in 1..Len(stdout) :
             stdout[j].kind = "array" /\ stdout[j].records = <<>>
       /\ exit_code \in {None, Some(0)}

\* a document without a verb, cut into fragments with amounts, was parsed to
\* the end
C9_Witness ==
    /\ pc = "returned"
    /\ ~Contains(content, Verbs)
    /\ Len(blocks) >= 2
    /\ \E k \in 1..Len(blocks) : extract_amount(Fragment(k))[1] # None
    /\ transactions = <<>>

\* C10: the command line prints exactly one JSON value and exits: the array
\* of records with exit code 0 when the file was read, the object with the
\* "error" key with a non-zero exit code when the path is missing or the
\* file cannot be read, and no exception escapes.
C10_CliOutput ==
    mode = "cli" =>
        /\ pc # "raised"
        /\ Len(stdout) <= 1
        /\ exit_code # None <=> pc = "exited"
        /\ pc = "exited" =>
              /\ Len(stdout) = 1
              /\ IF argv # <<>> /\ file.readable
                 THEN /\ stdout[1].kind = "array"
                      /\ stdout[1].records = transactions
                      /\ exit_code = Some(0)
                 ELSE /\ stdout[1].kind = "object"
                      /\ stdout[1].error
                      /\ exit_code # Some(0)

\* the file could not be read: one error object, exit code 1
C10_Witness ==
    /\ mode = "cli"
    /\ pc = "exited"
    /\ argv # <<>>
    /\ ~file.readable
    /\ stdout = <<[kind |-> "object", error |-> TRUE]>>
    /\ exit_code = Some(1)

\* C11: an input error (the file is missing or cannot be decoded) is reported
\* to the caller as an error object and never escapes as an exception:
\* neither parse_html_file nor parse_multiple_files ends with the exception
\* raised, whatever was gathered from the files before.
C11_InputErrorReported ==
    mode = "batch" => pc # "raised"

\* the date and time a timestamp string of a record denotes, as <<year,
\* month, day, hour, minute, second>>: of a normalized string, and of a
\* string still written as `28 Jul, 2024, 4:24:58 PM GMT+05:30`
CanonicalInstant(t) ==
    <<int(SubSeq(t, 1, 4)), int(SubSeq(t, 6, 7)), int(SubSeq(t, 9, 10)),
      int(SubSeq(t, 12, 13)), int(SubSeq(t, 15, 16)), int(SubSeq(t, 18, 19))>>
WrittenInstant(t, m) ==
    <<int(Group(t, m, 6)), month_to_num(Group(t, m, 3)), int(Group(t, m, 1)),
      To24(int(Group(t, m, 9)), Group(t, m, 15)[1]),
      int(Group(t, m, 11)), int(Group(t, m, 13))>>
InstantOf(t) ==
    IF Search(t, 1, timestamp_format1) # None
    THEN WrittenInstant(t, Search(t, 1, timestamp_format1)[1])
    ELSE CanonicalInstant(t)

\* how often the record r occurs in rows, and the lists of a list of lists
\* one after the other
Count(rows, r) == Cardinality({i \in 1..Len(rows) : rows[i] = r})
RECURSIVE Flatten(_)
Flatten(lists) ==
    IF lists = <<>> THEN <<>> ELSE Head(lists) \o Flatten(Tail(lists))

\* C12: the table parse_multiple_files returns holds the records of all files,
\* gathered in file order, each as often as it was gathered; of two rows with
\* a timestamp the one with the later date and time comes first, and the
\* rows without a timestamp come after all rows with one.
C12_SortedByTime ==
    (mode = "batch" /\ pc = "batch_returned") =>
        /\ all_transactions = Flatten(results)
        /\ \A i \in 1..Len(all_transactions) :
               Count(df, all_transactions[i])
                   = Count(all_transactions, all_transactions[i])
        /\ Len(df) = Len(all_transactions)
        /\ \A i, j \in 1..Len(df) :
               i < j =>
                   /\ df[i].timestamp = None => df[j].timestamp = None
                   /\ (df[i].timestamp # None /\ df[j].timestamp # None) =>
                          ~CodesLess(InstantOf(df[i].timestamp[1]),
                                     InstantOf(df[j].timestamp[1]))

\* the records a parser that has parsed nothing before returns for a document
RECURSIVE RecordsFrom(_, _, _)
RecordsFrom(doc, bs, k) ==
    IF k > Len(bs) THEN <<>>
    ELSE extract_from_transaction_block(Text(doc, bs[k]))
             \o RecordsFrom(doc, bs, k + 1)
FreshParse(doc) == RecordsFrom(doc, Segment(doc), 1)

\* C13: parsing holds no state between documents: the list parse_html_file
\* returns for a file of a batch is the list a fresh parser returns for that
\* document, whatever was parsed before it, so two files with the same
\* content give equal lists; and while a document is parsed the text read and
\* its fragments stay what they were.
C13_NoStateBetweenDocuments ==
    mode = "batch" =>
        /\ \A i \in 1..Len(results) :
               results[i] = FreshParse(filepaths[i].content)
        /\ \A i, j \in 1..Len(results) :
               filepaths[i].content = filepaths[j].content
                   => results[i] = results[j]
        /\ pc \in {"loop", "extend"} =>
               /\ content = file.content
               /\ blocks = Segment(file.content)

\* a document parsed first and again after another document, with records
\* from both
C13_Witness ==
    /\ mode = "batch"
    /\ Len(results) = 3
    /\ filepaths[1] = filepaths[3]
    /\ filepaths[2] # filepaths[1]
    /\ results[1] # <<>>
    /\ results[2] # <<>>
    /\ results[3] = results[1]

\* the ISO code of each of the four currency symbols
IsoCode == [Rupee |-> "INR", Euro |-> "EUR", Dollar |-> "USD", Pound |-> "GBP"]

\* C14: for every fragment given to extract_amount the currency is present
\* exactly when the amount is, and then it is the ISO code of the symbol of
\* the amount match (INR, EUR, USD, GBP for the rupee, euro, dollar and pound
\* signs); anything that is not one of the four symbols is mapped to itself;
\* and the currency of every record is one of the four codes.
C14_CurrencyOfSymbol ==
    /\ \A k \in Processed :
           /\ extract_amount(Fragment(k))[2] # None
                  <=> extract_amount(Fragment(k))[1] # None
           /\ extract_amount(Fragment(k))[2] # None =>
                  extract_amount(Fragment(k))[2]
                      = Some(IsoCode[Fragment(k)[FirstAmountMatch(Fragment(k))]])
           /\ \A t \in Range(Fragment(k)) \ CurrencySymbols :
                  currency_map(t) = t
    /\ \A j \in 1..Len(transactions) :
           transactions[j].currency
               \in {Some(IsoCode[sym]) : sym \in CurrencySymbols}

\* a dollar amount, a rupee amount and an amount that cannot be parsed came
\* one fragment each
C14_Witness ==
    /\ pc = "returned"
    /\ \E k1, k2, k3 \in Processed :
          /\ extract_amount(Fragment(k1)) = <<Some(<<7, 0>>), Some("USD")>>
          /\ extract_amount(Fragment(k2)) = <<Some(<<15, 0>>), Some("INR")>>
          /\ AmountMatches(Fragment(k3)) # {}
          /\ extract_amount(Fragment(k3)) = <<None, None>>

\* C15: the amount of every record is strictly positive, in what
\* parse_html_file returns for a file and in what a batch gathers.
C15_AmountPositive ==
    /\ \A j \in 1..Len(transactions) :
           transactions[j].amount # None => transactions[j].amount[1][1] > 0
    /\ \A j \in 1..Len(all_transactions) :
           all_transactions[j].amount # None
               => all_transactions[j].amount[1][1] > 0

\* the hour of the 24-hour clock for the hour h of the 12-hour clock
Hour24(h, ampm) ==
    IF h = 12 THEN (IF ampm = "AM" THEN 0 ELSE 12)
    ELSE IF ampm = "PM" THEN h + 12 ELSE h

\* the time of day in a formatted timestamp is the hour e in two digits, and
\* the minute and the second of the timestamp given
TimeIs(stamp, e) ==
    /\ Len(stamp) >= 19
    /\ e \in 0..23
    /\ SubSeq(stamp, 12, 13) = <<DigitTok(e \div 10), DigitTok(e % 10)>>
    /\ SubSeq(stamp, 15, 16) = given[1].minute
    /\ SubSeq(stamp, 18, 19) = Second

\* C16: for a timestamp written with an hour h in 1..12 and AM or PM, the
\* normalization gives the hour of the 24-hour clock in two digits (12 AM is
\* 00, 12 PM is 12, another PM hour is h + 12, another AM hour is h) and
\* copies the minute and the second; so do _normalize_timestamp and the
\* extract_timestamp of parse_html_to_json.
C16_TwelveHourClock ==
    (mode = "stamp" /\ given[1].shape = "MonthDay" /\ given[1].hour \in 1..12) =>
        /\ normalized # None =>
               TimeIs(normalized[1], Hour24(given[1].hour, given[1].ampm))
        /\ json_ts # None =>
               /\ json_ts[1] # None
               /\ TimeIs(json_ts[1][1], Hour24(given[1].hour, given[1].ampm))

\* 12:30:58 AM was normalized to hour 00 by both
C16_Witness ==
    /\ mode = "stamp"
    /\ given[1].shape = "MonthDay"
    /\ given[1].hour = 12
    /\ given[1].ampm = "AM"
    /\ given[1].minute = <<"3", "0">>
    /\ normalized # None
    /\ SubSeq(normalized[1], 12, 19) = <<"0", "0", ":", "3", "0", ":", "5", "8">>
    /\ json_ts # None
    /\ SubSeq(json_ts[1][1], 12, 19) = <<"0", "0", ":", "3", "0", ":", "5", "8">>

\* the 12-entry month table, n in two digits, and the canonical string
\* "YYYY-MM-DD HH:MM:SS" of the timestamp g with the hour e of the 24-hour
\* clock
MonthNumber ==
    [Jan |-> 1, Feb |-> 2, Mar |-> 3, Apr |-> 4, May |-> 5, Jun |-> 6,
     Jul |-> 7, Aug |-> 8, Sep |-> 9, Oct |-> 10, Nov |-> 11, Dec |-> 12]
TwoDigits(n) == <<DigitTok(n \div 10), DigitTok(n % 10)>>
CanonicalOf(g, e) ==
    Year \o <<"-">> \o TwoDigits(MonthNumber[g.month]) \o <<"-">>
        \o TwoDigits(g.day) \o <<"SP">> \o TwoDigits(e) \o <<":">>
        \o g.minute \o <<":">> \o Second

\* C17: for a fragment that holds a timestamp written month first with AM or
\* PM and an offset, or day first on the 24-hour clock with an offset, the
\* extract_timestamp of flexible_parser returns the canonical string of that
\* date and time.
C17_AbsoluteFormats ==
    (mode = "stamp" /\ table_ts # None
        /\ given[1].month \in DOMAIN MonthNumber) =>
        /\ (given[1].shape = "MonthDay" /\ given[1].hour \in 1..12) =>
               table_ts[1]
                   = Some(CanonicalOf(given[1],
                                      Hour24(given[1].hour, given[1].ampm)))
        /\ given[1].shape = "DayMonth" =>
               table_ts[1] = Some(CanonicalOf(given[1], given[1].hour))

\* a string of the exact shape "YYYY-MM-DD HH:MM:SS"
IsCanonical(t) ==
    /\ Len(t) = 19
    /\ \A i \in 1..19 :
           CASE i \in {5, 8} -> t[i] = "-"
             [] i = 11 -> t[i] = "SP"
             [] i \in {14, 17} -> t[i] = ":"
             [] OTHER -> t[i] \in Digits

\* C18: the timestamp of every record of flexible_parser, in what
\* parse_html_file returns and in the rows of a batch, is absent or a string
\* of the shape "YYYY-MM-DD HH:MM:SS".
C18_TimestampCanonicalOrAbsent ==
    mode = "batch" =>
        /\ \A j \in 1..Len(transactions) :
               transactions[j].timestamp # None
                   => IsCanonical(transactions[j].timestamp[1])
        /\ \A j \in 1..Len(df) :
               df[j].timestamp # None => IsCanonical(df[j].timestamp[1])

\* C19: _normalize_timestamp returns a string of the shape
\* "YYYY-MM-DD HH:MM:SS" as it is, and so returns its own canonical results
\* unchanged when it is applied to them again.
C19_NormalizeIdempotent ==
    mode = "stamp" =>
        /\ (IsCanonical(ts) /\ normalized # None) => normalized[1] = ts
        /\ (normalized # None /\ IsCanonical(normalized[1])
                /\ renormalized # None) => renormalized[1] = normalized[1]

\* 3:30:58 PM written month first was normalized to a canonical string and
\* that string normalized again
C19_Witness ==
    /\ mode = "stamp"
    /\ given[1].shape = "MonthDay"
    /\ given[1].hour = 3
    /\ given[1].ampm = "PM"
    /\ normalized # None
    /\ IsCanonical(normalized[1])
    /\ normalized[1] # ts
    /\ SubSeq(normalized[1], 12, 13) = <<"1", "5">>
    /\ renormalized = normalized

\* C20: on the same fragment the extract_timestamp of parse_html_to_json and
\* that of flexible_parser give a timestamp together or not at all, and the
\* "YYYY-MM-DDTHH:MM:SSZ" of the one carries the date and the time of the
\* "YYYY-MM-DD HH:MM:SS" of the other.
C20_SameUpToNotation ==
    (mode = "stamp" /\ table_ts # None /\ json_ts # None) =>
        /\ table_ts[1] = None <=> json_ts[1] = None
        /\ table_ts[1] # None =>
               /\ IsCanonical(table_ts[1][1])
               /\ json_ts[1][1]
                      = SubSeq(table_ts[1][1], 1, 10) \o <<"T">>
                            \o SubSeq(table_ts[1][1], 12, 19) \o <<"Z">>

\* the five literal status words, and those of them a text contains
StatusWords == {"Completed", "Pending", "Failed", "Cancelled", "Processing"}
WordsIn(text) == {w \in StatusWords : w \in Range(text)}

\* C21: when the fragment contains one of the five status words, the status
\* is one of the words it contains; the labelled "Status:"/"State:" pattern
\* decides only when it contains none of them, and without a word and
\* without a label there is no status.
C21_LiteralPreferred ==
    (mode = "field" /\ status # None) =>
        /\ WordsIn(block) # {} =>
               \E w \in WordsIn(block) : status[1] = Some(<<w>>)
        /\ WordsIn(block) = {} =>
               status[1] = IF StatusSearch(block, 1)[1] = 0 THEN None
                           ELSE Some(SubSeq(block, StatusSearch(block, 1)[1],
                                            StatusSearch(block, 1)[2] - 1))
        /\ (WordsIn(block) = {} /\ Range(block) \cap {"Status", "State"} = {})
               => status[1] = None

\* a fragment with "Failed" and a label "Status: Done" that the pattern
\* matches got the status Failed
C21_Witness ==
    /\ mode = "field"
    /\ status = Some(Some(<<"Failed">>))
    /\ StatusSearch(block, 1)[1] # 0
    /\ SubSeq(block, StatusSearch(block, 1)[1], StatusSearch(block, 1)[2] - 1)
           = <<"Done">>

\* the identifier tid stands in the text directly after the &emsp; of a
\* "Details" label
AfterDetails(text, tid) ==
    \E i, j \in 1..Len(text) :
        /\ i < j
        /\ text[i] = "Details"
        /\ text[j] = "EMSP"
        /\ \A k \in (i + 1)..(j - 1) :
               text[k] \in Whitespace \cup {":", "BCLOSE", "BR"}
        /\ j + Len(tid) <= Len(text)
        /\ SubSeq(text, j + 1, j + Len(tid)) = tid

\* the identifier the primary pattern matches in the text, None without a match
PrimaryToken(text) == GroupOf(text, Search(text, 1, details_primary), 7)

\* C22: a transaction id is written in letters and digits only, stands after
\* a "Details" label and has at least 4 characters, at least 6 when the
\* primary pattern does not match; when the primary pattern matches an
\* identifier of 3 characters or fewer there is no transaction id.
C22_TransactionIdLength ==
    (mode = "field" /\ transaction_id # None) =>
        /\ transaction_id[1] # None =>
               /\ \A k \in 1..Len(transaction_id[1][1]) :
                      transaction_id[1][1][k] \in UpperAlnum
               /\ AfterDetails(block, transaction_id[1][1])
               /\ Len(transaction_id[1][1]) >= 4
               /\ PrimaryToken(block) = None
                      => Len(transaction_id[1][1]) >= 6
        /\ (PrimaryToken(block) # None /\ Len(PrimaryToken(block)[1]) <= 3)
               => transaction_id[1] = None

\* the primary pattern matched the three characters A12 next to a verb and
\* an amount, and there is no transaction id
C22_Witness ==
    /\ mode = "field"
    /\ transaction_id = Some(None)
    /\ PrimaryToken(block) = Some(<<"A", "1", "2">>)
    /\ Contains(block, Verbs)

\* C23: in a record the wallet is the product, both absent or both the same
\* string, and every other field is what its own extractor gives for the
\* fragment, whatever the other extractors give.
C23_WalletMirrorsProduct ==
    (mode = "field" /\ extracted # None /\ extracted[1] # None) =>
        /\ extracted[1][1].wallet = extracted[1][1].product
        /\ product # None => extracted[1][1].product = product[1]
        /\ status # None => extracted[1][1].status = status[1]
        /\ transaction_id # None =>
               extracted[1][1].transaction_id = transaction_id[1]
        /\ extracted[1][1].amount = extract_amount(block)[1]
        /\ extracted[1][1].currency = extract_amount(block)[2]
        /\ extracted[1][1].recipient = extract_recipient(block)
        /\ extracted[1][1].payment_method = extract_payment_method(block)
        /\ extracted[1][1].account_number = extract_account_number(block)
        /\ extracted[1][1].timestamp = extract_timestamp(block)

\* a record with the product and the wallet "Bus Pass", and extract_product
\* applied on its own gave "Bus Pass"
C23_Witness ==
    /\ mode = "field"
    /\ extracted # None
    /\ extracted[1] # None
    /\ extracted[1][1].product = Some(<<"Bus", "SP", "Pass">>)
    /\ extracted[1][1].wallet = Some(<<"Bus", "SP", "Pass">>)
    /\ product = Some(Some(<<"Bus", "SP", "Pass">>))

\* C24: the fragments are the output of one tier, never a mix: when neither
\* the container markers nor the titles give two fragments, the fragments are
\* exactly the matches of the scan, none, one or several, and the single
\* fragment of a marker tier is dropped.
C24_OneTierOnly ==
    Segmented =>
        /\ blocks \in {ContainerBlocks(content), TitleBlocks(content),
                       ScanBlocks(content, 1)}
        /\ (Len(ContainerBlocks(content)) < 2 /\ Len(TitleBlocks(content)) < 2)
               => blocks = ScanBlocks(content, 1)

\* a document with one container block, at most one title block and one
\* match of the scan: the only fragment is the match of the scan
C24_Witness ==
    /\ Segmented
    /\ Len(ContainerBlocks(content)) = 1
    /\ Len(TitleBlocks(content)) < 2
    /\ Len(ScanBlocks(content, 1)) = 1
    /\ blocks = ScanBlocks(content, 1)
    /\ blocks # ContainerBlocks(content)

\* the place of a status word in the order the code consults the vocabulary
VocabularyRank(w) ==
    CASE w = "Completed" -> 1 [] w = "Pending" -> 2 [] w = "Failed" -> 3
      [] w = "Cancelled" -> 4 [] w = "Processing" -> 5

\* C25: when the fragment contains several of the status words, the status is
\* the one that comes first in the order Completed, Pending, Failed,
\* Cancelled, Processing, wherever the words stand in the fragment.
C25_VocabularyOrder ==
    (mode = "field" /\ status # None /\ WordsIn(block) # {}) =>
        \E w \in WordsIn(block) :
            /\ status[1] = Some(<<w>>)
            /\ \A v \in WordsIn(block) : VocabularyRank(w) <= VocabularyRank(v)

\* a fragment in which "Failed" stands before "Completed" got the status
\* Completed
C25_Witness ==
    /\ mode = "field"
    /\ status = Some(Some(<<"Completed">>))
    /\ \E i, j \in 1..Len(block) :
           i < j /\ block[i] = "Failed" /\ block[j] = "Completed"

Stored == {jobs_store[j] : j \in JobIds} \cup {documents[j] : j \in JobIds}

\* C27: a job has a result only when its status is "completed" and an error
\* only when its status is "failed", and never both; the same holds for what
\* /status answers.
C27_ResultXorError ==
    mode = "app" =>
        /\ \A d \in Stored \ {None} :
               /\ d[1].result # None => d[1].status = "completed"
               /\ d[1].error # None => d[1].status = "failed"
               /\ d[1].result = None \/ d[1].error = None
        /\ \A j \in returned : \A o \in Outcomes(1) :
               \A r \in {StatusResponse(j, get_job(j, o[1]))} :
                   r[1].job # None =>
                       /\ r[1].job[1].result # None => r[1].status = "completed"
                       /\ r[1].job[1].error # None => r[1].status = "failed"

\* is the job finished, and has e the status, result, error and completed_at
\* of d
Terminal(d) == d # None /\ d[1].status \in {"completed", "failed"}
Kept(d, e) ==
    /\ e # None
    /\ e[1].status = d[1].status
    /\ e[1].result = d[1].result
    /\ e[1].error = d[1].error
    /\ e[1].completed_at = d[1].completed_at

\* C28: "completed" and "failed" are final: no step changes the status, the
\* result, the error or the completed_at of a job that has one of them, and
\* no thread is started for such a job.
C28_TerminalStates ==
    [][mode = "app" =>
           \A j \in JobIds :
               /\ Terminal(jobs_store[j]) => Kept(jobs_store[j], jobs_store'[j])
               /\ Terminal(documents[j]) => Kept(documents[j], documents'[j])
               /\ (Terminal(jobs_store[j]) \/ Terminal(documents[j]))
                      => ~\E t \in DOMAIN threads' \ DOMAIN threads :
                              threads'[t].job_id = j]_vars

\* the threads of job j that have not ended
Active(j) ==
    {t \in DOMAIN threads :
         threads[t].job_id = j /\ threads[t].pc \notin {"done", "died"}}

\* C29: at most one background thread of a job is active at a time.
C29_OneThreadPerJob ==
    mode = "app" => \A j \in JobIds : Cardinality(Active(j)) <= 1

\* the start_job requests and the provide_input requests that the handlers
\* are to reject
Incomplete(req) ==
    \/ req.identifier_from_purchaser = None
    \/ req.html_file = None
    \/ req.html_file[1].filename = ""
    \/ req.html_file[1].content = ""

Unanswerable(req) ==
    \/ req.job_id = None
    \/ req.status_id = None
    \/ req.job_id[1] \notin returned

\* C30: a start_job request without identifier_from_purchaser, without
\* html_file, with an empty file name or with an empty file, and a
\* provide_input request without job_id, without status_id or for a job_id
\* that was never given out, is answered with the status "error" and leaves
\* the collection, jobs_store and the threads as they were.
C30_RejectedLeavesStore ==
    [][\/ /\ response' # None
          /\ response'[1].status = "error"
          /\ UNCHANGED <<documents, jobs_store, threads, returned>>
       \/ /\ ~\E req \in StartRequests : Incomplete(req) /\ start_job(req)
          /\ ~\E req \in InputRequests :
                  Unanswerable(req) /\ provide_input_mip003(req)]_vars

\* an empty file was rejected while a job was being processed
C30_Witness ==
    /\ mode = "app"
    /\ response = Sent(Error(400, "HTML file is empty"))
    /\ returned # {}
    /\ \E j \in returned : Active(j) # {} /\ jobs_store[j] # None

====
